---- MODULE Spec2Model ----
(***************************************************************************)
(* Auto-threading daemon for Telegram forums (autothread_daemon.py,        *)
(* auto_thread.py): the reconciliation tick of one forum, the platform     *)
(* it talks to, the two persisted documents (forum_state.json and          *)
(* daemon_state.json), and the pure functions it uses (the conversation    *)
(* detector and the title generator); the pruning of the ledger, the files *)
(* of the state store as load_state and the save functions read and write  *)
(* them, and overlapping runs of run_once under _daemon_lock.              *)
(*                                                                         *)
(* Time is the wall clock in seconds.  One tick is one atomic action: it   *)
(* runs under _daemon_lock and every datetime.now() of a tick reads the    *)
(* same second.                                                            *)
(***************************************************************************)
EXTENDS Integers, Sequences, FiniteSets, TLC

\* ------------------------------------------------------------------ bounds
\* highest topic id the platform hands out per forum
MaxTopic == 4
\* topics of a forum that exist before the daemon first runs
MaxInitialTopics == 2
\* topics of a forum that its admins close
MaxClosed == 2
\* platform calls and document writes that fail, or answer late, in one run
MaxFaults == 1
\* the clock runs from 0 to MaxTime in steps of ClockStep seconds
MaxTime == 20
ClockStep == 5

\* --------------------------------------------------------- program constants
COOLDOWN_AFTER_CREATE_SECONDS == 15
COOLDOWN_AFTER_AUTOTHREAD_SECONDS == 10
MIN_MESSAGES_FOR_AUTOTHREAD == 2
STATE_CLEANUP_AGE_DAYS == 7
SecondsPerDay == 86400

\* MONITORED_FORUMS: the chat ids of the configured forums
Forums == {"A", "B"}
\* MONITORED_FORUMS[chat_id]["persistent_topics"]
persistent_topics(f) == {1}

TopicIds == 1..MaxTopic
\* a missing key of a document (dict.get(...) returning None)
None == 0
\* state.get(str(chat_id), {}).get("general_topic_id", 1): the default
DefaultGeneral == 1

VARIABLES
    topics,        \* platform: topics[f][t] = [st, title]
    hasConv,       \* platform: hasConv[f] = topics whose recent messages hold a conversation
    forum_state,   \* forum_state.json: forum_state[f] = general_topic_id or None
    daemon_state,  \* daemon_state.json: [processed, created_topics, last_autothread_timestamp]
    now,           \* wall clock, seconds
    renamed,       \* history: renamed[f] = topics an EditForumTopic call was issued for
    faults,        \* history: failed or late calls and writes so far
    last,          \* history: what the step just taken did when it was a tick
    messages,      \* result.messages of GetReplies: the fetched window of a topic
    detected,      \* what check_for_user_message_mtproto returned on the window
    title,         \* what generate_topic_name returned on the window
    swept,         \* history: the ledger and the clock cleanup_old_state was last called on
    disk,          \* the files of the state store: disk[path] = content
    io,            \* the load_state or save call in progress, or what the last one returned
    pc,            \* pc[r] = where run r of run_once stands
    lock,          \* _daemon_lock: its holder and the runs waiting for it
    send,          \* the welcome sends of the tick in progress
    cfg,           \* config.json as the process finds it
    shared_client, \* _shared_client: the Client the daemon keeps between uses
    sessions,      \* platform: the sessions open on the session file argon_daemon
    dm             \* where the process started with --daemon stands

\* the variables of the reconciliation engine, of the two pure stages, and of
\* the state store's files, the runs of run_once and the welcome sends
engineVars == <<topics, hasConv, forum_state, daemon_state, now, renamed, faults, last>>
stageVars == <<messages, detected, title>>
fileVars == <<swept, disk, io>>
runVars == <<pc, lock>>
sendVars == <<send>>
daemonVars == <<cfg, shared_client, sessions, dm>>
vars == <<engineVars, stageVars, fileVars, runVars, sendVars, daemonVars>>

\* ------------------------------------------------------------- small helpers
Max(S) == CHOOSE x \in S : \A y \in S : y <= x

\* d with key k set to v (d[k] = v of a Python dict)
DictSet(d, k, v) == [x \in (DOMAIN d) \cup {k} |-> IF x = k THEN v ELSE d[x]]

\* d without the keys in ks (del d[k])
DictDel(d, ks) == [x \in (DOMAIN d) \ ks |-> d[x]]

\* f"{chat_id}:{topic_id}"
Key(f, t) == <<f, t>>

EmptyDict == [x \in {} |-> None]

\* daemon_state.get("last_autothread_timestamp") of a document without the key
NoTimestamp == None - 1

\* load_state of a missing file: {}
EmptyDaemonState ==
    [processed |-> EmptyDict, created_topics |-> EmptyDict,
     last_autothread_timestamp |-> NoTimestamp]

\* ---------------------------------------------------------------- platform
\* a topic id the forum has never used
NoTopic == [st |-> "none", title |-> "none"]

Exists(tp, t) == tp[t].st # "none"

IsOpen(tp, t) == tp[t].st = "open"

\* the id the platform gives the next created topic of a forum
NextTopicId(tp) == 1 + Max({0} \cup {t \in TopicIds : Exists(tp, t)})

\* topic for topic in result.topics if title == "General" and not closed
OpenGenerals(tp) == {t \in TopicIds : IsOpen(tp, t) /\ tp[t].title = "General"}

\* CreateForumTopic(title="General") on the platform
CreateGeneral(tp) == [tp EXCEPT ![NextTopicId(tp)] = [st |-> "open", title |-> "General"]]

\* EditForumTopic(topic_id, title=new_topic_name) on the platform
RenameTopic(tp, t) == [tp EXCEPT ![t].title = "Other"]

\* ------------------------------------------------------------- state store
\* get_current_general: state.get(str(chat_id), {}).get("general_topic_id", 1)
get_current_general(f) ==
    IF forum_state[f] = None THEN DefaultGeneral ELSE forum_state[f]

\* an entry of daemon_state["created_topics"]
CreatedEntry(t, src) == [timestamp |-> t, source |-> src]

\* an entry of daemon_state["processed"]
ProcessedEntry(t, new) == [timestamp |-> t, new_general |-> new]

\* A timestamp of the ledger is an ISO string.  One that datetime.now() wrote
\* (local time, no UTC offset) is the number of its second, 0 or more; one
\* that is missing or that fromisoformat rejects is InvalidTimestamp; one
\* that carries a UTC offset is WithOffset(t), t the second it names.
InvalidTimestamp == NoTimestamp
WithOffset(t) == InvalidTimestamp - 1 - t
HasOffset(ts) == ts < InvalidTimestamp
\* the second a parsable timestamp names
Instant(ts) == IF HasOffset(ts) THEN InvalidTimestamp - 1 - ts ELSE ts

\* timedelta(days=STATE_CLEANUP_AGE_DAYS)
RetentionHorizon == STATE_CLEANUP_AGE_DAYS * SecondsPerDay

\* faulty variant: only the entries older than the horizon are dropped
ExpiredKeys_OldOnly(d, t) ==
    {k \in DOMAIN d :
        d[k].timestamp >= 0 /\ d[k].timestamp < t - RetentionHorizon}

\* cleanup_old_state, to_remove: the entries whose timestamp fromisoformat
\* rejects (ValueError, TypeError), whose comparison with the cutoff raises
\* TypeError (a timestamp with a UTC offset against the naive cutoff), or
\* that are older than the cutoff
ExpiredKeys(d, t) ==
    {k \in DOMAIN d :
        \/ d[k].timestamp = InvalidTimestamp
        \/ HasOffset(d[k].timestamp)
        \/ d[k].timestamp < t - RetentionHorizon}

cleanup_old_state(ds, t) ==
    [ds EXCEPT !.processed = DictDel(ds.processed, ExpiredKeys(ds.processed, t)),
               !.created_topics =
                   DictDel(ds.created_topics, ExpiredKeys(ds.created_topics, t))]

\* ------------------------------------------------------------ ensure-inbox
\* outcome of GetForumTopics in ensure_general_exists
ListOutcomes == {"ok", "fail"}
\* outcome of CreateForumTopic and the re-listing in ensure_general_exists:
\* the call raises; the topic is created but the re-listing does not show it
\* yet; the topic is created and found
EnsureCreateOutcomes == {"fail", "lag", "ok"}

\* what ensure_general_exists returns and leaves behind:
\* ret: the returned topic id; tp: the forum's topics; ptr: the forum's
\* general_topic_id; ds: daemon_state.json; create: CreateForumTopic was
\* called; ptrWrite, ledgerWrite: forum_state.json, daemon_state.json was
\* written; listed: the first GetForumTopics call returned; welcome: the
\* welcome loop was entered
EnsureKeep(f, cur, create) ==
    [ret |-> cur, tp |-> topics[f], ptr |-> forum_state[f], ds |-> daemon_state,
     create |-> create, ptrWrite |-> FALSE, ledgerWrite |-> FALSE,
     listed |-> TRUE, welcome |-> FALSE]

\* faulty variant: the oldest of the open topics titled "General" is taken
Newest_Oldest(S) == CHOOSE x \in S : \A y \in S : x <= y

\* max(general_topics, key=lambda t: t.id)
Newest(S) == Max(S)

\* faulty variant: the cached topic is never taken for open
CurrentIsOpen_Dropped(tp, cur) == FALSE

\* current_topic and not getattr(current_topic, 'closed', False)
CurrentIsOpen(tp, cur) == Exists(tp, cur) /\ IsOpen(tp, cur)

ensure_general_exists(f, lst, ec) ==
    LET cur == get_current_general(f)
        tp == topics[f]
    IN  IF lst = "fail" THEN [EnsureKeep(f, cur, FALSE) EXCEPT !.listed = FALSE]
        ELSE IF CurrentIsOpen(tp, cur) THEN EnsureKeep(f, cur, FALSE)
        ELSE IF OpenGenerals(tp) # {} THEN
            [ret |-> Newest(OpenGenerals(tp)), tp |-> tp,
             ptr |-> Newest(OpenGenerals(tp)),
             ds |-> daemon_state, create |-> FALSE, ptrWrite |-> TRUE,
             ledgerWrite |-> FALSE, listed |-> TRUE, welcome |-> FALSE]
        ELSE IF ec = "fail" THEN EnsureKeep(f, cur, TRUE)
        ELSE IF ec = "lag" THEN
            [EnsureKeep(f, cur, TRUE) EXCEPT !.tp = CreateGeneral(tp)]
        ELSE
            [ret |-> NextTopicId(tp), tp |-> CreateGeneral(tp), ptr |-> NextTopicId(tp),
             ds |-> [daemon_state EXCEPT !.created_topics =
                        DictSet(@, Key(f, NextTopicId(tp)),
                                CreatedEntry(now, "ensure_general_exists"))],
             create |-> TRUE, ptrWrite |-> TRUE, ledgerWrite |-> TRUE,
             listed |-> TRUE, welcome |-> TRUE]

\* ------------------------------------------------------------------ guards
\* faulty variant: guard (a) is dropped
IsPersistent_Dropped(f, g) == FALSE

\* (a) current_general in persistent_topics
IsPersistent(f, g) == g \in persistent_topics(f)

\* faulty variant: guard (b) is dropped
AlreadyProcessed_Dropped(ds, f, g) == FALSE

\* (b) daemon_state.get("processed", {}).get(processed_key)
AlreadyProcessed(ds, f, g) == Key(f, g) \in DOMAIN ds.processed

\* faulty variant: guard (c) measures the age against the shorter cooldown
RecentlyCreated_Short(ds, f, g, t) ==
    /\ Key(f, g) \in DOMAIN ds.created_topics
    /\ t - ds.created_topics[Key(f, g)].timestamp < COOLDOWN_AFTER_AUTOTHREAD_SECONDS

\* (c) anti-race safeguard 1: this topic was recently created
RecentlyCreated(ds, f, g, t) ==
    /\ Key(f, g) \in DOMAIN ds.created_topics
    /\ t - ds.created_topics[Key(f, g)].timestamp < COOLDOWN_AFTER_CREATE_SECONDS

\* (d) anti-race safeguard 2: this topic was created as new_general of a
\* transition; the loop runs over every processed entry of the document
RecentlyNewGeneral(ds, g, t) ==
    \E k \in DOMAIN ds.processed :
        /\ ds.processed[k].new_general = g
        /\ t - ds.processed[k].timestamp < COOLDOWN_AFTER_CREATE_SECONDS

\* faulty variant: guard (e) never lets the cooldown expire
GlobalCooldown_Sticky(ds, t) == ds.last_autothread_timestamp # NoTimestamp

\* faulty variant: guard (e) is dropped
GlobalCooldown_Dropped(ds, t) == FALSE

\* (e) anti-race safeguard 3: global cooldown after any auto-threading
GlobalCooldown(ds, t) ==
    /\ ds.last_autothread_timestamp # NoTimestamp
    /\ t - ds.last_autothread_timestamp < COOLDOWN_AFTER_AUTOTHREAD_SECONDS

\* the first guard that stops the tick, "-" when none does
FirstGuard(ds, f, g, t) ==
    IF IsPersistent(f, g) THEN "a"
    ELSE IF AlreadyProcessed(ds, f, g) THEN "b"
    ELSE IF RecentlyCreated(ds, f, g, t) THEN "c"
    ELSE IF RecentlyNewGeneral(ds, g, t) THEN "d"
    ELSE IF GlobalCooldown(ds, t) THEN "e"
    ELSE "-"

\* ---------------------------------------------------------------- detector
\* outcome of the GetReplies fetch of check_for_user_message_mtproto
FetchOutcomes == {"ok", "fail"}

\* check_for_user_message_mtproto: False when the fetch raises, else whether
\* the topic's recent messages hold a conversation
check_for_user_message_mtproto(f, g, fetch) == fetch = "ok" /\ g \in hasConv[f]

\* -------------------------------------------------------------- transition
\* auto_thread before its first platform call: load_telegram_config, Client
\* start and resolve_peer succeed or raise
StartOutcomes == {"ok", "fail"}
\* EditForumTopic succeeds or raises (the error is printed and dropped)
RenameOutcomes == {"ok", "fail"}
\* CreateForumTopic raises; or the topic is created and a later step of
\* auto_thread (the fallback listing, set_current_general_topic) raises; or
\* auto_thread returns
CreateOutcomes == {"fail", "raise", "ok"}
\* save_daemon_state writes the document, or hits an IOError and drops it
SaveOutcomes == {"ok", "fail"}

\* the ids auto_thread can take for new_topic_id once the topic is created:
\* the new topic's id (from the updates, or first in the fallback listing),
\* another topic titled "General" that the fallback listing shows first, or
\* None when neither the updates nor the listing give one
NewTopicIdChoices(tp, g) ==
    LET others == {t \in TopicIds : Exists(tp, t) /\ tp[t].title = "General" /\ t # g}
    IN  {NextTopicId(tp)} \cup others \cup {None}

\* the platform calls of auto_thread, in the order it issues them
BothCalls == <<"rename", "create">>

\* faulty variant: a failure before the first platform call is passed over
\* and auto_thread returns without having called the platform
auto_thread_StartIgnored(g, tp, ptr, st, rn, cr, nid) ==
    [raised |-> FALSE, tp |-> tp, ptr |-> ptr, new_general_id |-> None,
     rename |-> FALSE, create |-> FALSE, ptrWrite |-> FALSE, calls |-> <<>>]

\* faulty variant: a rename that fails is raised like a create that fails,
\* and auto_thread ends before CreateForumTopic
auto_thread_RenameAborts(g, tp, ptr, st, rn, cr, nid) ==
    IF st = "fail" \/ rn = "fail" THEN
        [raised |-> TRUE, tp |-> tp, ptr |-> ptr, new_general_id |-> None,
         rename |-> st # "fail", create |-> FALSE, ptrWrite |-> FALSE,
         calls |-> IF st = "fail" THEN <<>> ELSE <<"rename">>]
    ELSE IF cr \in {"fail", "raise"} THEN
        [raised |-> TRUE,
         tp |-> IF cr = "raise" THEN CreateGeneral(RenameTopic(tp, g))
                ELSE RenameTopic(tp, g),
         ptr |-> ptr, new_general_id |-> None, rename |-> TRUE,
         create |-> TRUE, ptrWrite |-> FALSE, calls |-> BothCalls]
    ELSE
        [raised |-> FALSE, tp |-> CreateGeneral(RenameTopic(tp, g)),
         ptr |-> IF nid # None THEN nid ELSE ptr, new_general_id |-> nid,
         rename |-> TRUE, create |-> TRUE, ptrWrite |-> nid # None,
         calls |-> BothCalls]

\* auto_thread(chat_id, current_topic_id, new_topic_name): tp and ptr are the
\* forum's topics and general_topic_id before the call; calls: the platform
\* calls issued, in order
auto_thread(g, tp, ptr, st, rn, cr, nid) ==
    LET tp1 == IF rn = "ok" THEN RenameTopic(tp, g) ELSE tp
    IN  IF st = "fail" THEN
            [raised |-> TRUE, tp |-> tp, ptr |-> ptr, new_general_id |-> None,
             rename |-> FALSE, create |-> FALSE, ptrWrite |-> FALSE,
             calls |-> <<>>]
        ELSE IF cr = "fail" THEN
            [raised |-> TRUE, tp |-> tp1, ptr |-> ptr, new_general_id |-> None,
             rename |-> TRUE, create |-> TRUE, ptrWrite |-> FALSE,
             calls |-> BothCalls]
        ELSE IF cr = "raise" THEN
            [raised |-> TRUE, tp |-> CreateGeneral(tp1), ptr |-> ptr,
             new_general_id |-> None, rename |-> TRUE, create |-> TRUE,
             ptrWrite |-> FALSE, calls |-> BothCalls]
        ELSE
            [raised |-> FALSE, tp |-> CreateGeneral(tp1),
             ptr |-> IF nid # None THEN nid ELSE ptr, new_general_id |-> nid,
             rename |-> TRUE, create |-> TRUE, ptrWrite |-> nid # None,
             calls |-> BothCalls]

\* lines 668-688: the entries a transition adds to the in-memory daemon_state
MarkProcessed(ds, f, g, nid, t) ==
    [ds EXCEPT !.processed = DictSet(@, Key(f, g), ProcessedEntry(t, nid)),
               !.created_topics =
                   IF nid # None
                   THEN DictSet(@, Key(f, nid), CreatedEntry(t, "auto_thread"))
                   ELSE @,
               !.last_autothread_timestamp = t]

\* --------------------------------------------------------------- the tick
\* what a tick did: forum and inbox (the id ensure_general_exists returned);
\* outcome: "skipped" (a guard returned False), "noconv" (the detector found
\* no conversation), "transitioned" (returned True) or "error" (raised, caught
\* by run_once); guard: the guard that skipped it; detect: the detector ran;
\* rename, transCreate: auto_thread issued EditForumTopic, CreateForumTopic;
\* renameAgain: the rename was issued for a topic renamed before; ptrWrite,
\* ledgerWrite: auto_thread wrote forum_state.json, the tick called
\* save_daemon_state; ensureCreate, ensurePtrWrite, ensureLedgerWrite: the
\* same for ensure_general_exists; listed: the GetForumTopics call of
\* ensure_general_exists returned; ensureWelcome, welcome: the welcome loop of
\* ensure_general_exists, of trigger_auto_thread was entered; new_general:
\* result.get("new_general_id"); ledgerSaved: save_daemon_state wrote the
\* document; trace: the steps of the tick in the order they were taken
NoTick ==
    [forum |-> "-", inbox |-> None, outcome |-> "none", guard |-> "-",
     detect |-> FALSE, rename |-> FALSE, renameAgain |-> FALSE,
     ensureCreate |-> FALSE, ensurePtrWrite |-> FALSE,
     ensureLedgerWrite |-> FALSE, transCreate |-> FALSE, ptrWrite |-> FALSE,
     ledgerWrite |-> FALSE, listed |-> FALSE, ensureWelcome |-> FALSE,
     welcome |-> FALSE, new_general |-> None, ledgerSaved |-> FALSE,
     trace |-> <<>>]

Finish(f, tp, ptr, ds, rn, n, rec) ==
    /\ topics' = [topics EXCEPT ![f] = tp]
    /\ forum_state' = [forum_state EXCEPT ![f] = ptr]
    /\ daemon_state' = ds
    /\ renamed' = [renamed EXCEPT ![f] = @ \cup rn]
    /\ faults' = faults + n
    /\ last' = rec
    /\ UNCHANGED <<hasConv, now, stageVars, fileVars>>

\* the platform hands out no topic id above MaxTopic: a create call then fails
CanCreate(tp) == NextTopicId(tp) <= MaxTopic

\* what the platform and the disk can do to one tick: c.lst, c.ec for
\* ensure_general_exists, c.fetch for the detector, c.st, c.rn, c.cr, c.nid for
\* auto_thread, c.sv for save_daemon_state; c.n counts the calls and writes
\* among them that fail or answer late.  A choice that the tick would not read
\* is listed once, with its first value.
Bad(x) == IF x = "ok" THEN 0 ELSE 1

EnsureChoices(tp) ==
    {[lst |-> "ok", ec |-> IF CanCreate(tp) THEN "ok" ELSE "fail", n |-> 0]}
    \cup {[lst |-> "fail", ec |-> "fail", n |-> 1]}
    \cup {[lst |-> "ok", ec |-> x, n |-> 1] :
            x \in IF CanCreate(tp) THEN {"fail", "lag"} ELSE {"fail"}}

TransitionChoices(tp, g) ==
    {[st |-> "fail", rn |-> "ok", cr |-> "fail", nid |-> None, sv |-> "ok", n |-> 1]}
    \cup {[st |-> "ok", rn |-> r, cr |-> x, nid |-> None, sv |-> "ok",
           n |-> Bad(r) + 1] :
            r \in RenameOutcomes,
            x \in IF CanCreate(tp) THEN {"fail", "raise"} ELSE {"fail"}}
    \cup {[st |-> "ok", rn |-> r, cr |-> "ok", nid |-> i, sv |-> v,
           n |-> Bad(r) + Bad(v) + (IF i = NextTopicId(tp) THEN 0 ELSE 1)] :
            r \in RenameOutcomes, v \in SaveOutcomes,
            i \in IF CanCreate(tp) THEN NewTopicIdChoices(tp, g) ELSE {}}

\* faulty variant: a tick that returns False saves the pruned ledger
NotSaved_Pruned(doc, mem) == mem

\* return False (603, 613, 624, 638, 650, 694): the dict that was loaded and
\* pruned in memory is dropped, daemon_state.json stays as it is
NotSaved(doc, mem) == doc

\* the steps of a tick, in the order of lines 597-690
StepsToGuards == <<"ensure", "guards">>

\* the tick once ensure_general_exists has returned e: guards, detector and
\* transition (_check_and_autothread_forum_impl from line 599 on); n0 faults
\* were met in ensure_general_exists.  With defer, the step ends before
\* save_daemon_state (690): the document keeps what ensure_general_exists left
\* and the caller holds the dict to be saved.
AfterEnsure(f, e, n0, defer) ==
    LET g == e.ret
        mem == cleanup_old_state(e.ds, now)
        guard == FirstGuard(mem, f, g, now)
        base == [NoTick EXCEPT !.forum = f, !.inbox = g, !.outcome = "skipped",
                               !.guard = guard, !.ensureCreate = e.create,
                               !.ensurePtrWrite = e.ptrWrite,
                               !.ensureLedgerWrite = e.ledgerWrite,
                               !.listed = e.listed,
                               !.ensureWelcome = e.welcome,
                               !.trace = StepsToGuards]
    IN  IF guard # "-" THEN
            Finish(f, e.tp, e.ptr, NotSaved(e.ds, mem), {}, n0, base)
        ELSE
            \/ \E fetch \in FetchOutcomes :
                /\ n0 + Bad(fetch) <= MaxFaults - faults
                /\ ~check_for_user_message_mtproto(f, g, fetch)
                /\ Finish(f, e.tp, e.ptr, NotSaved(e.ds, mem), {}, n0 + Bad(fetch),
                          [base EXCEPT !.outcome = "noconv", !.detect = TRUE,
                                       !.trace = Append(StepsToGuards, "detect")])
            \/ /\ check_for_user_message_mtproto(f, g, "ok")
               /\ \E c \in TransitionChoices(e.tp, g) :
                    LET a == auto_thread(g, e.tp, e.ptr, c.st, c.rn, c.cr, c.nid)
                        mem2 == MarkProcessed(mem, f, g, a.new_general_id, now)
                        saved == ~a.raised /\ c.sv = "ok"
                        rec == [base EXCEPT
                                  !.detect = TRUE,
                                  !.rename = a.rename,
                                  !.renameAgain = a.rename /\ g \in renamed[f],
                                  !.transCreate = a.create,
                                  !.ptrWrite = a.ptrWrite,
                                  !.outcome = IF a.raised THEN "error"
                                              ELSE "transitioned",
                                  !.ledgerWrite = ~a.raised,
                                  !.welcome = a.new_general_id # None,
                                  !.new_general = a.new_general_id,
                                  !.ledgerSaved = saved,
                                  !.trace = Append(StepsToGuards, "detect")
                                            \o a.calls
                                            \o IF a.raised THEN <<>>
                                               ELSE <<"ledger">>]
                    IN  /\ n0 + c.n <= MaxFaults - faults
                        /\ Finish(f, a.tp, a.ptr,
                                  IF saved /\ ~defer THEN mem2 ELSE e.ds,
                                  IF a.rename THEN {g} ELSE {}, n0 + c.n, rec)

\* the body of one tick of forum f from ensure_general_exists on
TickBody(f, defer) ==
    \E c \in EnsureChoices(topics[f]) :
        /\ c.n <= MaxFaults - faults
        /\ AfterEnsure(f, ensure_general_exists(f, c.lst, c.ec), c.n, defer)

\* _check_and_autothread_forum_impl(chat_id): the body of one tick of forum
\* f, run with _daemon_lock held
check_and_autothread_forum_impl(f) == TickBody(f, FALSE)

\* a tick of forum f with no other run of run_once about
Tick(f) == check_and_autothread_forum_impl(f) /\ UNCHANGED <<runVars, sendVars, daemonVars>>

\* ------------------------------------------------------------- environment
\* the wall clock advances, up to the instant end
AdvanceTo(end) ==
    /\ now + ClockStep <= end
    /\ now' = now + ClockStep
    /\ last' = NoTick
    /\ UNCHANGED <<topics, hasConv, forum_state, daemon_state, renamed, faults, stageVars, fileVars, runVars, sendVars, daemonVars>>

\* the wall clock advances
Advance == AdvanceTo(MaxTime)

\* the topics the daemon can come to read: the forum's inbox and the topics
\* titled "General".  What happens in a renamed topic that is not the inbox
\* changes nothing a tick reads.
Watched(f, t) == t = get_current_general(f) \/ topics[f][t].title = "General"

\* a user writes into an open topic after the bot's message there: the
\* topic's recent messages now hold a conversation
Converse(f, t) ==
    /\ IsOpen(topics[f], t)
    /\ Watched(f, t)
    /\ t \notin hasConv[f]
    /\ hasConv' = [hasConv EXCEPT ![f] = @ \cup {t}]
    /\ last' = NoTick
    /\ UNCHANGED <<topics, forum_state, daemon_state, now, renamed, faults, stageVars, fileVars, runVars, sendVars, daemonVars>>

\* a forum admin closes a topic
CloseTopic(f, t) ==
    /\ IsOpen(topics[f], t)
    /\ Watched(f, t)
    /\ Cardinality({x \in TopicIds : topics[f][x].st = "closed"}) < MaxClosed
    /\ topics' = [topics EXCEPT ![f][t].st = "closed"]
    /\ last' = NoTick
    /\ UNCHANGED <<hasConv, forum_state, daemon_state, now, renamed, faults, stageVars, fileVars, runVars, sendVars, daemonVars>>

\* ------------------------------------------------------------ specification
\* no window fetched, nothing returned.  fetch: what GetReplies did; result:
\* the value returned; raised: an exception left the function
NotDetected == [fetch |-> "pending", result |-> FALSE, raised |-> FALSE]
NoTitle == [fetch |-> "pending", text |-> <<>>]
StagesIdle == messages = <<>> /\ detected = NotDetected /\ title = NoTitle

\* cleanup_old_state not called yet
NoSweep == [ran |-> FALSE, at |-> 0, before |-> EmptyDaemonState,
            after |-> EmptyDaemonState]

\* STATE_PATH and DAEMON_STATE_PATH
Documents == {"forum_state.json", "daemon_state.json"}
\* what a file holds: nothing (it does not exist), the complete document of
\* the v-th write, a prefix of it, text that is not JSON, or bytes that are
\* not text
Absent == [kind |-> "absent", v |-> 0]
Json(v) == [kind |-> "json", v |-> v]
Partial(v) == [kind |-> "partial", v |-> v]
NotJson == [kind |-> "notjson", v |-> 0]
NotText == [kind |-> "nottext", v |-> 0]
\* path, path.with_suffix('.json.tmp'), path.with_suffix('.json.bak')
NoFiles == [main |-> Absent, tmp |-> Absent, bak |-> Absent]
\* no read done yet
NoRead == [by |-> "-", doc |-> "-", outcome |-> "none", saw |-> Absent,
           moved |-> FALSE]
\* no write in progress, v writes begun so far
NoWrite(v, rd) == [op |-> "none", doc |-> "-", at |-> "-", v |-> v, read |-> rd]
FilesIdle ==
    /\ swept = NoSweep
    /\ disk = [d \in Documents |-> NoFiles]
    /\ io = NoWrite(0, NoRead)

\* the invocations of run_once that can overlap
Runs == {"r1", "r2"}
\* for chat_id in MONITORED_FORUMS: the order of the pass
ForumOrder == <<"A", "B">>
\* a run that is not in a pass.  at: the position in ForumOrder; step: where
\* the run stands at that position; err: the tick just run raised; ticked,
\* raised: history, the forums whose tick ended, and ended by raising, in
\* the run's latest pass; doc: the dict the tick holds between its read of
\* daemon_state.json (605) and save_daemon_state (690)
IdleRun == [at |-> 0, step |-> "idle", err |-> FALSE, ticked |-> {},
            raised |-> {}, doc |-> EmptyDaemonState]
\* asyncio.Lock(): not held, nobody waiting
Unlocked == [holder |-> "-", waiting |-> <<>>]
\* no tick in progress: nothing to send, nothing held.  sites: the welcome
\* loops still to run; attempt: the loop variable of the running loop;
\* posts, wait: history, the POSTs the running loop has made and the sleep
\* that followed the latest one; sent: a POST of the tick was answered ok;
\* hold: the tick holds a dict to be saved at line 690; done: history, the
\* POSTs made by the loop that ended last; resp: what the latest POST gave;
\* over: the loop met a break; tick: history, what the tick did
NoSend == [sites |-> <<>>, attempt |-> 0, posts |-> 0, wait |-> 0,
           resp |-> [kind |-> "-", retry_after |-> None], over |-> FALSE,
           sent |-> FALSE, hold |-> FALSE, doc |-> EmptyDaemonState,
           done |-> 0, tick |-> NoTick]
\* _shared_client = None
NoClient == [id |-> None, is_connected |-> FALSE]
\* no use of the shared client made yet.  op: the function that used it;
\* raised: the use raised; stop: what stop() did when the exit called it;
\* held: the session the body ran on, None when the entry raised
NoUse == [op |-> "-", raised |-> FALSE, stop |-> "-", held |-> None]
\* the process is not started.  at: the await the process stands at; ticks:
\* the passes of the while loop begun; own: the session auto_thread opened
\* for itself, None when it has none; rename, create, ledger: history, the
\* tick in flight issued EditForumTopic, CreateForumTopic, saved the ledger;
\* cut: history, the await at which the interrupt arrived; closed: history,
\* shutdown_client ran; uses, use: history, the uses of the shared client
\* so far, what the latest one did and what the one before it did
NotStarted == [at |-> "main", ticks |-> 0, own |-> None, rename |-> FALSE,
               create |-> FALSE, ledger |-> FALSE, cut |-> "-",
               closed |-> FALSE, uses |-> 0, use |-> NoUse, prev |-> NoUse]
\* no client made, no session open, the process not started
DaemonIdle ==
    /\ shared_client = NoClient
    /\ sessions = [open |-> {}, started |-> 0]
    /\ dm = NotStarted
PassesIdle ==
    /\ pc = [r \in Runs |-> IdleRun]
    /\ lock = Unlocked
    /\ send = NoSend
RunsIdle == PassesIdle /\ DaemonIdle /\ cfg = "valid"

\* a forum whose topics 1..n are open and titled "General"; forum_state.json
\* and daemon_state.json do not exist yet
InitTopics(n) == [t \in TopicIds |->
    IF t <= n THEN [st |-> "open", title |-> "General"] ELSE NoTopic]

\* the state before the daemon first runs, with n0 calls already counted as
\* failed (n0 = MaxFaults: a run in which no call or write fails)
InitWith(n0) ==
    /\ topics \in [Forums -> {InitTopics(n) : n \in 1..MaxInitialTopics}]
    /\ hasConv = [f \in Forums |-> {}]
    /\ forum_state = [f \in Forums |-> None]
    /\ daemon_state = EmptyDaemonState
    /\ now = 0
    /\ renamed = [f \in Forums |-> {}]
    /\ faults = n0
    /\ last = NoTick
    /\ StagesIdle
    /\ FilesIdle
    /\ RunsIdle

\* run_once over the forums F of MONITORED_FORUMS, the clock, the users and
\* the admins of these forums
NextOf(F) ==
    \/ \E f \in F : Tick(f)
    \/ Advance
    \/ \E f \in F, t \in TopicIds : Converse(f, t)
    \/ \E f \in F, t \in TopicIds : CloseTopic(f, t)

\* MONITORED_FORUMS as configured: one forum
Init == InitWith(0) /\ topics["B"] = InitTopics(1)

Next == NextOf({"A"})

Spec == Init /\ [][Next]_vars

\* a second forum added to MONITORED_FORUMS; no call or write fails
Init2 == InitWith(MaxFaults) /\ \A f \in Forums : topics[f] = InitTopics(MaxInitialTopics)

Next2 == NextOf(Forums)

Spec2 == Init2 /\ [][Next2]_vars

\* run_daemon: the loop ticks every forum each interval, for ever, and time
\* passes between the ticks
InitLive ==
    /\ InitWith(MaxFaults)
    /\ topics = [f \in Forums |->
                    InitTopics(IF f = "A" THEN MaxInitialTopics ELSE 1)]
SpecLive == InitLive /\ [][Next]_vars /\ WF_vars(Tick("A")) /\ WF_vars(Advance)

\* -------------------------------------------------- conversation detector
\* a raw message of the window: from_id is the sender's user id (NoUserId
\* when from_id is absent or is a channel or chat peer: an anonymous admin, a
\* channel post), date its timestamp, message its text as a sequence of
\* characters, media the class of its media ("None" when it has none)
MaxMsgs == 2
MaxDate == 2
BOT_ID == "8549153948"
OtherUserId == "1001"
NoUserId == "None"
SenderIds == {BOT_ID, OtherUserId, NoUserId}
TextSliceLen == 100

Min2(a, b) == IF a <= b THEN a ELSE b
\* s[:n]
Take(s, n) == SubSeq(s, 1, Min2(n, Len(s)))
IsSpace(c) == c \in {" ", "\n", "\t"}
RECURSIVE LStrip(_)
LStrip(s) == IF s = <<>> THEN s
             ELSE IF IsSpace(Head(s)) THEN LStrip(Tail(s)) ELSE s
RECURSIVE RStrip(_)
RStrip(s) == IF s = <<>> THEN s
             ELSE IF IsSpace(s[Len(s)]) THEN RStrip(SubSeq(s, 1, Len(s) - 1)) ELSE s
\* str.strip()
strip(s) == RStrip(LStrip(s))

\* has_meaningful_content(msg): (text, has_media)
has_meaningful_content(msg) ==
    [text |-> strip(Take(msg.message, TextSliceLen)),
     has_media |-> msg.media # "None"]

\* lines 228-248: the messages the detector collects; one without a sender
\* user id is dropped
CollectedMessage(msg) ==
    [from_id |-> msg.from_id, date |-> msg.date, is_bot |-> msg.from_id = BOT_ID,
     text |-> has_meaningful_content(msg).text,
     has_media |-> has_meaningful_content(msg).has_media]
HasUserId(msg) == msg.from_id # NoUserId
RECURSIVE Collect(_)
Collect(msgs) ==
    IF msgs = <<>> THEN <<>>
    ELSE IF HasUserId(Head(msgs))
         THEN <<CollectedMessage(Head(msgs))>> \o Collect(Tail(msgs))
         ELSE Collect(Tail(msgs))

IsBotMessage(m) == m.is_bot
IsUserMessage(m) == ~m.is_bot /\ (m.text # <<>> \/ m.has_media)
MinDate(ms) == CHOOSE d \in {ms[i].date : i \in DOMAIN ms} :
                    \A i \in DOMAIN ms : d <= ms[i].date
AfterWelcome(m, first_bot_time) == m.date > first_bot_time

\* lines 250-292: the decision on the collected messages (their sort by date
\* plays no part in it)
valid_conversation(msgs) ==
    LET collected == Collect(msgs)
        bot_messages == SelectSeq(collected, IsBotMessage)
        user_messages == SelectSeq(collected, IsUserMessage)
    IN  /\ Len(collected) >= MIN_MESSAGES_FOR_AUTOTHREAD
        /\ bot_messages # <<>>
        /\ user_messages # <<>>
        /\ \E i \in DOMAIN user_messages :
                AfterWelcome(user_messages[i], MinDate(bot_messages))

\* the messages a topic can hold in the detector's runs
DetectorTexts == {<<>>, <<" ">>, <<"h", "i">>}
DetectorMessages ==
    [from_id : SenderIds, date : 1..MaxDate, message : DetectorTexts,
     media : {"None", "MessageMediaPhoto"}]

\* somebody posts message m in the topic
Post(m) ==
    /\ Len(messages) < MaxMsgs
    /\ messages' = Append(messages, m)
    /\ detected' = NotDetected
    /\ UNCHANGED <<engineVars, title, fileVars, runVars, sendVars, daemonVars>>

\* check_for_user_message_mtproto: GetReplies returns the window
Detect ==
    /\ detected' = [fetch |-> "ok", result |-> valid_conversation(messages),
                    raised |-> FALSE]
    /\ UNCHANGED <<engineVars, messages, title, fileVars, runVars, sendVars, daemonVars>>

\* check_for_user_message_mtproto: the client or GetReplies raises, the
\* except clause returns False
DetectFails ==
    /\ detected' = [fetch |-> "fail", result |-> FALSE, raised |-> FALSE]
    /\ UNCHANGED <<engineVars, messages, title, fileVars, runVars, sendVars, daemonVars>>

InitDetect == InitWith(0) /\ topics = [f \in Forums |-> InitTopics(1)]
NextDetect ==
    \/ \E m \in DetectorMessages : Post(m)
    \/ Detect
    \/ DetectFails
SpecDetect == InitDetect /\ [][NextDetect]_vars

\* ---------------------------------------------------------- title generator
\* texts are sequences of characters over a small alphabet: the letter "a",
\* the upper-case "H", and the characters the heuristics look for
MaxTextLen == 37

\* position of the first c in s, 0 when there is none
IndexOf(s, c) ==
    IF \E i \in DOMAIN s : s[i] = c
    THEN CHOOSE i \in DOMAIN s : s[i] = c /\ \A j \in 1..(i - 1) : s[j] # c
    ELSE 0
\* c in s
Contains(s, c) == IndexOf(s, c) # 0
\* s.split(c)[0]
BeforeFirst(s, c) == IF Contains(s, c) THEN SubSeq(s, 1, IndexOf(s, c) - 1) ELSE s
\* s[n:]
Drop(s, n) == SubSeq(s, n + 1, Len(s))
\* str.lower() on the alphabet
LowerChar(c) == IF c = "H" THEN "h" ELSE c
lower(s) == [i \in DOMAIN s |-> LowerChar(s[i])]
\* s.startswith(p)
startswith(s, p) == Len(s) >= Len(p) /\ SubSeq(s, 1, Len(p)) = p
\* s.split('\n')
RECURSIVE SplitLines(_)
SplitLines(s) ==
    IF Contains(s, "\n")
    THEN <<BeforeFirst(s, "\n")>> \o SplitLines(Drop(s, IndexOf(s, "\n")))
    ELSE <<s>>
\* position of the first "**" in s, 0 when there is none
IndexOfStars(s) ==
    IF \E i \in 1..(Len(s) - 1) : s[i] = "*" /\ s[i + 1] = "*"
    THEN CHOOSE i \in 1..(Len(s) - 1) :
            /\ s[i] = "*" /\ s[i + 1] = "*"
            /\ \A j \in 1..(i - 1) : ~(s[j] = "*" /\ s[j + 1] = "*")
    ELSE 0
\* line.split('**')[1] for a line that starts with "**"
BetweenStars(line) ==
    IF IndexOfStars(Drop(line, 2)) = 0 THEN Drop(line, 2)
    ELSE SubSeq(Drop(line, 2), 1, IndexOfStars(Drop(line, 2)) - 1)

Ellipsis == <<".", ".", ".">>
\* x[:35] + ('...' if len(x) > 35 else '')
Truncate(x) == Take(x, 35) \o (IF Len(x) > 35 THEN Ellipsis ELSE <<>>)

Greetings ==
    {<<"h", "i">>, <<"h", "e", "l", "l", "o">>, <<"h", "e", "y">>, <<"y", "o">>,
     <<"?">>, <<"t", "e", "s", "t">>, <<"o", "k">>, <<"y", "e", "s">>, <<"n", "o">>}
\* the welcome emoji counts as the one character "wave"
WelcomeStarts ==
    {<<"h", "e", "y">>, <<"h", "i">>, <<"h", "e", "l", "l", "o">>, <<"wave">>,
     <<"w", "h", "a", "t", "'", "s", " ", "o", "n">>}
SkippedTopicStarts == {<<"h", "t", "t", "p">>, <<"n", "o", "t", "e">>}

NoHit == [hit |-> FALSE, text |-> <<>>]
Hit(x) == [hit |-> TRUE, text |-> x]

\* lines 389-403: the title one user text gives
UserTitle(text) ==
    LET clean == lower(strip(text))
        q == strip(BeforeFirst(text, "?")) \o <<"?">>
        first == strip(BeforeFirst(BeforeFirst(text, "\n"), "."))
    IN  IF clean \in Greetings THEN NoHit
        ELSE IF Contains(text, "?") /\ Len(q) > 5 THEN Hit(Truncate(q))
        ELSE IF Len(text) > 10 /\ Len(first) > 5 THEN Hit(Truncate(first))
        ELSE NoHit

\* lines 411-420: the title one line of a bot text gives
LineTitle(raw) ==
    LET line == strip(raw)
        header == startswith(line, <<"*", "*">>) /\ IndexOfStars(Drop(line, 2)) # 0
        topic == strip(BeforeFirst(line, ":"))
    IN  IF header /\ Len(BetweenStars(line)) > 3 THEN Hit(Truncate(BetweenStars(line)))
        ELSE IF /\ Len(line) > 15 /\ Contains(Take(line, 30), ":")
                /\ Len(topic) > 5
                /\ \A w \in SkippedTopicStarts : ~startswith(lower(topic), w)
             THEN Hit(Take(topic, 35))
        ELSE NoHit

\* for line in text.split('\n'): the first line that gives a title
RECURSIVE FirstLineTitle(_)
FirstLineTitle(lines) ==
    IF lines = <<>> THEN NoHit
    ELSE IF LineTitle(Head(lines)).hit THEN LineTitle(Head(lines))
    ELSE FirstLineTitle(Tail(lines))

\* lines 405-420: the title one bot text gives
BotTitle(text) ==
    IF \E w \in WelcomeStarts : startswith(lower(text), w) THEN NoHit
    ELSE FirstLineTitle(SplitLines(text))

\* for text in user_texts: the first text that gives a title
RECURSIVE FirstUserTitle(_)
FirstUserTitle(texts) ==
    IF texts = <<>> THEN NoHit
    ELSE IF UserTitle(Head(texts)).hit THEN UserTitle(Head(texts))
    ELSE FirstUserTitle(Tail(texts))

\* for text in bot_texts: the first text that gives a title
RECURSIVE FirstBotTitle(_)
FirstBotTitle(texts) ==
    IF texts = <<>> THEN NoHit
    ELSE IF BotTitle(Head(texts)).hit THEN BotTitle(Head(texts))
    ELSE FirstBotTitle(Tail(texts))

\* strftime('%b %d %H:%M'): twelve characters
Stamp == <<"N", "o", "v", " ", "0", "6", " ", "1", "0", ":", "1", "2">>
\* faulty variant: the generic fallback returns the empty string
ChatTitle_Empty == <<>>
ChatTitle == <<"C", "h", "a", "t", " ">> \o Stamp
VoiceTitle == <<"V", "o", "i", "c", "e", " ", "c", "h", "a", "t", " ">> \o Stamp

\* lines 365-384: the stripped texts of the messages that have a text and
\* whose sender is the bot (bot TRUE) or another user id (bot FALSE)
TextSelected(msg, bot) ==
    /\ msg.message # <<>>
    /\ IF bot THEN msg.from_id = BOT_ID
              ELSE msg.from_id # BOT_ID /\ msg.from_id # NoUserId
RECURSIVE TextsOf(_, _)
TextsOf(msgs, bot) ==
    IF msgs = <<>> THEN <<>>
    ELSE IF TextSelected(Head(msgs), bot)
         THEN <<strip(Head(msgs).message)>> \o TextsOf(Tail(msgs), bot)
         ELSE TextsOf(Tail(msgs), bot)
\* 'Voice' in type(media).__name__
IsVoiceClass(media) == media \in {"MessageMediaVoice"}

\* generate_topic_name on the window msgs
generate_topic_name(msgs) ==
    LET user_texts == TextsOf(msgs, FALSE)
        bot_texts == TextsOf(msgs, TRUE)
        has_voice == \E i \in DOMAIN msgs : IsVoiceClass(msgs[i].media)
    IN  IF FirstUserTitle(user_texts).hit THEN FirstUserTitle(user_texts).text
        ELSE IF FirstBotTitle(bot_texts).hit THEN FirstBotTitle(bot_texts).text
        ELSE IF has_voice /\ user_texts = <<>> THEN VoiceTitle
        ELSE ChatTitle

\* the texts of the generator's runs: n letters with the character c at
\* position p, and markdown headers
Pattern(n, c, p) == [i \in 1..n |-> IF i = p THEN c ELSE "a"]
Header(n) == <<"*", "*">> \o [i \in 1..n |-> "a"] \o <<"*", "*">>
Marks == {"a", "H", "?", ".", "\n", " ", ":"}
TitleTexts ==
    {Pattern(n, c, p) : n \in 0..MaxTextLen, c \in Marks, p \in {1, 6, 36}}
    \cup {Header(n) : n \in 0..MaxTextLen}
TitleMessages ==
    [from_id : SenderIds, date : {2}, message : TitleTexts,
     media : {"None", "MessageMediaDocument"}]
Greeting(id) == [from_id |-> id, date |-> 1, message |-> <<"H", "i">>, media |-> "None"]
\* a user's text of more than 10 characters that is no question
Statement ==
    [from_id |-> OtherUserId, date |-> 1, message |-> Pattern(12, "a", 1),
     media |-> "None"]
\* the windows of the generator's runs: empty, greeting-only, one message
\* (attachment-only when its text is empty), and a message after a greeting
\* or after a user's statement, listed oldest first or, as GetReplies lists
\* them, latest first
TitleWindows ==
    {<<>>}
    \cup {<<Greeting(id)>> : id \in {BOT_ID, OtherUserId}}
    \cup {<<m>> : m \in TitleMessages}
    \cup {<<Greeting(id), m>> : id \in {BOT_ID, OtherUserId}, m \in TitleMessages}
    \cup {<<Statement, m>> : m \in TitleMessages}
    \cup {<<m, Statement>> : m \in TitleMessages}

\* generate_topic_name: GetReplies returns the window
Generate ==
    /\ title = NoTitle
    /\ title' = [fetch |-> "ok", text |-> generate_topic_name(messages)]
    /\ UNCHANGED <<engineVars, messages, detected, fileVars, runVars, sendVars, daemonVars>>

\* generate_topic_name: the client or GetReplies raises, the except clause
\* returns the generic title
GenerateFails ==
    /\ title = NoTitle
    /\ title' = [fetch |-> "fail", text |-> ChatTitle]
    /\ UNCHANGED <<engineVars, messages, detected, fileVars, runVars, sendVars, daemonVars>>

InitTitle ==
    /\ topics = [f \in Forums |-> InitTopics(1)]
    /\ hasConv = [f \in Forums |-> {}]
    /\ forum_state = [f \in Forums |-> None]
    /\ daemon_state = EmptyDaemonState
    /\ now = 0
    /\ renamed = [f \in Forums |-> {}]
    /\ faults = 0
    /\ last = NoTick
    /\ messages \in TitleWindows
    /\ detected = NotDetected
    /\ title = NoTitle
    /\ FilesIdle
    /\ RunsIdle
NextTitle == Generate \/ GenerateFails
SpecTitle == InitTitle /\ [][NextTitle]_vars

\* ------------------------------------------------------------ ledger pruning
\* the ledgers cleanup_old_state is run on: entries written a retention
\* horizon ago and earlier (0), ClockStep later, and now; entries without a
\* usable timestamp; entries whose timestamp carries a UTC offset
CleanupStart == RetentionHorizon + ClockStep
CleanupStamps ==
    {InvalidTimestamp, 0, ClockStep, CleanupStart, WithOffset(CleanupStart)}
\* the dicts with keys among K and values among V
Dicts(K, V) == UNION {[D -> V] : D \in SUBSET K}
CleanupLedgers ==
    [processed :
        Dicts({Key("A", 2), Key("B", 2)}, {ProcessedEntry(t, 3) : t \in CleanupStamps}),
     created_topics :
        Dicts({Key("A", 3)}, {CreatedEntry(t, "auto_thread") : t \in CleanupStamps}),
     last_autothread_timestamp : {NoTimestamp, CleanupStart}]

\* daemon_state = cleanup_old_state(daemon_state) (line 608): the dict that
\* was loaded is pruned in memory; the file is not written
Sweep ==
    /\ swept' = [ran |-> TRUE, at |-> now, before |-> daemon_state,
                 after |-> cleanup_old_state(daemon_state, now)]
    /\ UNCHANGED <<engineVars, stageVars, disk, io, runVars, sendVars, daemonVars>>

\* time passes before the ledger is loaded and pruned
Wait ==
    /\ now + ClockStep <= CleanupStart + MaxTime
    /\ now' = now + ClockStep
    /\ swept' = NoSweep
    /\ UNCHANGED <<topics, hasConv, forum_state, daemon_state, renamed, faults,
                   last, stageVars, disk, io, runVars, sendVars, daemonVars>>

InitCleanup ==
    /\ topics = [f \in Forums |-> InitTopics(1)]
    /\ hasConv = [f \in Forums |-> {}]
    /\ forum_state = [f \in Forums |-> None]
    /\ daemon_state \in CleanupLedgers
    /\ now = CleanupStart
    /\ renamed = [f \in Forums |-> {}]
    /\ faults = 0
    /\ last = NoTick
    /\ StagesIdle
    /\ FilesIdle
    /\ RunsIdle
NextCleanup == Sweep \/ Wait
SpecCleanup == InitCleanup /\ [][NextCleanup]_vars

\* ------------------------------------------------------- state store files
\* documents written in one run of the store
MaxWrites == 2

FileSet(d, name, content) == [disk EXCEPT ![d][name] = content]
Reading(rd) == [io EXCEPT !.read = rd]

\* save_state, line 74: open(tmp_path, "w") creates the temp file, empty
SaveOpen(d) ==
    /\ io.op = "none" /\ io.v < MaxWrites
    /\ disk' = FileSet(d, "tmp", Partial(io.v + 1))
    /\ io' = [io EXCEPT !.op = "save_state", !.doc = d, !.at = "opened",
                        !.v = io.v + 1]
    /\ UNCHANGED <<engineVars, stageVars, swept, runVars, sendVars, daemonVars>>

\* save_state, line 75: json.dump writes the document into the temp file
SaveDump ==
    /\ io.op = "save_state" /\ io.at = "opened"
    /\ disk' = FileSet(io.doc, "tmp", Json(io.v))
    /\ io' = [io EXCEPT !.at = "dumped"]
    /\ UNCHANGED <<engineVars, stageVars, swept, runVars, sendVars, daemonVars>>

\* save_state, line 76: tmp_path.replace(path)
SaveReplace ==
    /\ io.op = "save_state" /\ io.at = "dumped"
    /\ disk' = [disk EXCEPT ![io.doc].main = disk[io.doc].tmp,
                            ![io.doc].tmp = Absent]
    /\ io' = NoWrite(io.v, io.read)
    /\ UNCHANGED <<engineVars, stageVars, swept, runVars, sendVars, daemonVars>>

\* save_state, lines 77-80: a step raises IOError; the temp file is unlinked
SaveIOError ==
    /\ io.op = "save_state"
    /\ disk' = FileSet(io.doc, "tmp", Absent)
    /\ io' = NoWrite(io.v, io.read)
    /\ UNCHANGED <<engineVars, stageVars, swept, runVars, sendVars, daemonVars>>

\* save_forum_state (auto_thread.py), line 43: open(STATE_PATH, "w")
\* truncates the document itself
ForumSaveOpen ==
    /\ io.op = "none" /\ io.v < MaxWrites
    /\ disk' = FileSet("forum_state.json", "main", Partial(io.v + 1))
    /\ io' = [io EXCEPT !.op = "save_forum_state", !.doc = "forum_state.json",
                        !.at = "opened", !.v = io.v + 1]
    /\ UNCHANGED <<engineVars, stageVars, swept, runVars, sendVars, daemonVars>>

\* save_forum_state, line 44: json.dump writes the document
ForumSaveDump ==
    /\ io.op = "save_forum_state"
    /\ disk' = FileSet(io.doc, "main", Json(io.v))
    /\ io' = NoWrite(io.v, io.read)
    /\ UNCHANGED <<engineVars, stageVars, swept, runVars, sendVars, daemonVars>>

\* the process is killed in the middle of a write, and started again
Crash ==
    /\ io.op # "none"
    /\ io' = NoWrite(io.v, io.read)
    /\ UNCHANGED <<engineVars, stageVars, swept, disk, runVars, sendVars, daemonVars>>

\* path.rename(backup_path) succeeds, or raises and is passed over
MoveOutcomes == {"ok", "fail"}

\* load_state(path) of the daemon
load_state(d, mv) ==
    LET saw == disk[d].main
        rd == [by |-> "load_state", doc |-> d, outcome |-> "empty", saw |-> saw,
               moved |-> FALSE]
    IN  IF saw.kind = "absent" THEN [files |-> disk[d], read |-> rd]
        ELSE IF saw.kind = "json"
            THEN [files |-> disk[d], read |-> [rd EXCEPT !.outcome = "document"]]
        ELSE IF saw.kind = "nottext"
            THEN [files |-> disk[d], read |-> [rd EXCEPT !.outcome = "raised"]]
        ELSE IF mv = "ok"
            THEN [files |-> [disk[d] EXCEPT !.main = Absent, !.bak = saw],
                  read |-> [rd EXCEPT !.moved = TRUE]]
        ELSE [files |-> disk[d], read |-> rd]

\* the daemon reads a document (get_current_general, get_daemon_state, the
\* load before a save)
LoadState(d, mv) ==
    /\ io.op = "none"
    /\ mv = "fail" => disk[d].main.kind \in {"partial", "notjson"}
    /\ disk' = [disk EXCEPT ![d] = load_state(d, mv).files]
    /\ io' = Reading(load_state(d, mv).read)
    /\ UNCHANGED <<engineVars, stageVars, swept, runVars, sendVars, daemonVars>>

\* load_forum_state (auto_thread.py), by the daemon or by another process
\* that uses auto_thread.py: no except clause
load_forum_state ==
    LET saw == disk["forum_state.json"].main
    IN  [by |-> "load_forum_state", doc |-> "forum_state.json",
         outcome |-> IF saw.kind = "absent" THEN "empty"
                     ELSE IF saw.kind = "json" THEN "document" ELSE "raised",
         saw |-> saw, moved |-> FALSE]

LoadForumState ==
    /\ io' = Reading(load_forum_state)
    /\ UNCHANGED <<engineVars, stageVars, swept, disk, runVars, sendVars, daemonVars>>

\* a document on the disk is damaged: its text is no longer JSON, or its
\* bytes no longer decode as text
Damage(d, c) ==
    /\ io.op = "none"
    /\ disk[d].main.kind = "json"
    /\ disk' = FileSet(d, "main", c)
    /\ UNCHANGED <<engineVars, stageVars, swept, io, runVars, sendVars, daemonVars>>

InitStore == InitWith(0) /\ topics = [f \in Forums |-> InitTopics(1)]
NextStore ==
    \/ \E d \in Documents : SaveOpen(d)
    \/ SaveDump
    \/ SaveReplace
    \/ SaveIOError
    \/ ForumSaveOpen
    \/ ForumSaveDump
    \/ Crash
    \/ \E d \in Documents, mv \in MoveOutcomes : LoadState(d, mv)
    \/ LoadForumState
    \/ \E d \in Documents, c \in {NotJson, NotText} : Damage(d, c)
SpecStore == InitStore /\ [][NextStore]_vars

\* -------------------------------------------------- overlapping passes
\* faulty variant: the lock is never taken for held
LockFree_Always(l) == TRUE

\* asyncio.Lock.acquire returns at once when the lock is not held and nobody
\* waits for it
LockFree(l) == l.holder = "-" /\ l.waiting = <<>>

\* faulty variant: a tick that raises ends the pass
AfterForum_Abort(i, err) == IF err \/ i >= Len(ForumOrder) THEN 0 ELSE i + 1

\* run_once, the for loop with its try/except: the position after the tick
\* at position i, whether it raised (err) or returned; 0 when the pass is over
AfterForum(i, err) == IF i < Len(ForumOrder) THEN i + 1 ELSE 0

\* run_once is invoked: the run is about to call check_and_autothread_forum
\* for the first forum
StartPass(r) ==
    /\ pc[r].step = "idle"
    /\ pc' = [pc EXCEPT ![r] = [IdleRun EXCEPT !.at = 1, !.step = "call"]]
    /\ UNCHANGED <<engineVars, stageVars, fileVars, sendVars, daemonVars, lock>>

\* check_and_autothread_forum, line 591: async with _daemon_lock
Acquire(r) ==
    /\ pc[r].step = "call"
    /\ IF LockFree(lock)
       THEN /\ lock' = [lock EXCEPT !.holder = r]
            /\ pc' = [pc EXCEPT ![r].step = "body"]
       ELSE /\ lock' = [lock EXCEPT !.waiting = Append(@, r)]
            /\ pc' = [pc EXCEPT ![r].step = "waiting"]
    /\ UNCHANGED <<engineVars, stageVars, fileVars, sendVars, daemonVars>>

\* faulty variant: the dict to be saved is built from scratch, not from the
\* document that was read
HeldDict_FromScratch(doc, f, g, nid, t) == MarkProcessed(EmptyDaemonState, f, g, nid, t)

\* lines 605-688: the dict a transition holds when it reaches
\* save_daemon_state: the document read at 605, pruned, with the entries of
\* the transition
HeldDict(doc, f, g, nid, t) == MarkProcessed(cleanup_old_state(doc, t), f, g, nid, t)

\* line 592: the body of the tick, from ensure_general_exists up to
\* save_daemon_state: it returns or raises, or holds the dict it read at 605,
\* pruned and with the transition's entries, ready to be saved
Body(r) ==
    /\ pc[r].step = "body"
    /\ TickBody(ForumOrder[pc[r].at], TRUE)
    /\ pc' = [pc EXCEPT
                ![r].step = IF last'.ledgerSaved THEN "save" ELSE "written",
                ![r].doc = IF last'.ledgerSaved
                           THEN HeldDict(daemon_state', last'.forum, last'.inbox,
                                         last'.new_general, now)
                           ELSE EmptyDaemonState,
                ![r].err = (last'.outcome = "error"),
                ![r].ticked = @ \cup {ForumOrder[pc[r].at]},
                ![r].raised = IF last'.outcome = "error"
                              THEN @ \cup {ForumOrder[pc[r].at]} ELSE @]
    /\ UNCHANGED <<lock, sendVars, daemonVars>>

\* line 690: save_daemon_state(daemon_state) writes the dict the tick holds
\* over the document
Save(r) ==
    /\ pc[r].step = "save"
    /\ daemon_state' = pc[r].doc
    /\ pc' = [pc EXCEPT ![r].step = "written", ![r].doc = EmptyDaemonState]
    /\ UNCHANGED <<topics, hasConv, forum_state, now, renamed, faults, last,
                   stageVars, fileVars, sendVars, daemonVars, lock>>

\* the async with block is left: the lock is released and handed to the
\* run that waited longest; run_once catches what the tick raised (699-703)
\* and goes on
Release(r) ==
    LET next == AfterForum(pc[r].at, pc[r].err)
        woken == IF lock.waiting = <<>> THEN "-" ELSE Head(lock.waiting)
    IN  /\ pc[r].step = "written"
        /\ lock' = IF lock.waiting = <<>> THEN Unlocked
                   ELSE [holder |-> woken, waiting |-> Tail(lock.waiting)]
        /\ pc' = [q \in Runs |->
                    IF q = r
                    THEN [pc[r] EXCEPT !.at = next, !.err = FALSE,
                                       !.step = IF next = 0 THEN "idle" ELSE "call"]
                    ELSE IF q = woken THEN [pc[q] EXCEPT !.step = "body"]
                    ELSE pc[q]]
        /\ UNCHANGED <<engineVars, stageVars, fileVars, sendVars, daemonVars>>

\* two forums with the protected topic and one more topic titled "General",
\* which is their inbox and which ensure_general_exists recorded as created
\* a create-cooldown ago; one call or write can fail
InitPass ==
    /\ topics = [f \in Forums |-> InitTopics(DefaultGeneral + 1)]
    /\ hasConv = [f \in Forums |-> {}]
    /\ forum_state = [f \in Forums |-> DefaultGeneral + 1]
    /\ daemon_state =
        [EmptyDaemonState EXCEPT !.created_topics =
            [k \in {Key(f, DefaultGeneral + 1) : f \in Forums} |->
                CreatedEntry(0, "ensure_general_exists")]]
    /\ now = COOLDOWN_AFTER_CREATE_SECONDS
    /\ renamed = [f \in Forums |-> {}]
    /\ faults = MaxFaults - 1
    /\ last = NoTick
    /\ StagesIdle
    /\ FilesIdle
    /\ RunsIdle
\* the passes that overlap at one instant, and the users of the forums
NextPass ==
    \/ \E r \in Runs : StartPass(r)
    \/ \E r \in Runs : Acquire(r)
    \/ \E r \in Runs : Body(r)
    \/ \E r \in Runs : Save(r)
    \/ \E r \in Runs : Release(r)
    \/ \E f \in Forums, t \in TopicIds : Converse(f, t)
SpecPass == InitPass /\ [][NextPass]_vars

\* ------------------------------------------- a forum with an old ledger
\* the ledgers a daemon that has run for more than the retention horizon
\* finds: empty; entries of the other forum written at 0, which is past the
\* horizon, with an old transition time; the same entries written ClockStep
\* later, which is not
AgedLedger(t) ==
    [processed |-> [k \in {Key("B", 2)} |-> ProcessedEntry(t, 3)],
     created_topics |->
        [k \in {Key("B", 3)} |-> CreatedEntry(t, "auto_thread")],
     last_autothread_timestamp |-> t]
AgedLedgers == {EmptyDaemonState, AgedLedger(0), AgedLedger(ClockStep)}

\* forum A has the protected topic and two more topics titled "General";
\* its pointer was never written; the clock stands past the retention horizon
InitAged ==
    /\ topics = [f \in Forums |->
                    InitTopics(IF f = "A" THEN DefaultGeneral + 2 ELSE 1)]
    /\ hasConv = [f \in Forums |-> {}]
    /\ forum_state = [f \in Forums |-> None]
    /\ daemon_state \in AgedLedgers
    /\ now = CleanupStart
    /\ renamed = [f \in Forums |-> {}]
    /\ faults = 0
    /\ last = NoTick
    /\ StagesIdle
    /\ FilesIdle
    /\ RunsIdle
NextAged ==
    \/ Tick("A")
    \/ AdvanceTo(CleanupStart + MaxTime)
    \/ \E t \in TopicIds : Converse("A", t)
    \/ \E t \in TopicIds : CloseTopic("A", t)
SpecAged == InitAged /\ [][NextAged]_vars

\* ------------------------------------------------------ the welcome sends
\* for attempt in range(3): (316, 555)
WelcomeAttempts == 3
\* resp.json().get("parameters", {}).get("retry_after", 5): (331, 569)
DefaultRetryAfter == 5
\* the retry_after values the platform sends with a 429, in seconds
MaxRetryAfter == 2
\* None: the body of the 429 has no retry_after
RetryAfters == (1..MaxRetryAfter) \cup {None}

\* faulty variant: the loop goes on for as long as no POST is answered
AttemptsLeft_Always(attempt) == TRUE

\* range(3) has a value left for the loop variable
AttemptsLeft(attempt) == attempt < WelcomeAttempts

\* what requests.post gives: resp.ok; status 429; another status; an
\* exception (a timeout, a refused connection, a 429 whose body is not JSON)
PostOutcomes == {"ok", "429", "error", "raises"}
\* no POST made yet in the loop
NoResp == [kind |-> "-", retry_after |-> None]
Resps ==
    {[kind |-> k, retry_after |-> None] : k \in PostOutcomes \ {"429"}}
    \cup {[kind |-> "429", retry_after |-> ra] : ra \in RetryAfters}

\* await asyncio.sleep(...) after the POST of the given attempt: retry_after
\* on a 429 (332-334, 569-570), 2 ** attempt on an exception when attempt < 2
\* (338-340, 573-575), none on a break
SleepAfter(attempt, resp) ==
    CASE resp.kind = "429" ->
            IF resp.retry_after = None THEN DefaultRetryAfter
            ELSE resp.retry_after
      [] resp.kind = "raises" -> IF attempt < 2 THEN 2 ^ attempt ELSE 0
      [] OTHER -> 0

\* the tick has no welcome loop to run and holds no dict to save
SendIdle == send.sites = <<>> /\ ~send.hold

\* the welcome loops a tick runs: the one of ensure_general_exists when it
\* found the topic it created (551), the one of trigger_auto_thread when
\* auto_thread returned a new_general_id (311)
SitesOf(rec) ==
    (IF rec.ensureWelcome THEN <<"ensure_general_exists">> ELSE <<>>)
    \o (IF rec.welcome THEN <<"trigger_auto_thread">> ELSE <<>>)

\* a tick of forum f up to save_daemon_state, its welcome loops left to run:
\* the pointer and the created entry of ensure_general_exists are written
\* before its loop (535-549), the pointer of auto_thread before the loop of
\* trigger_auto_thread, the ledger of the transition after it (668-690).
\* The sleeps are seconds and do not move the clock of the model.
BeginTick(f) ==
    /\ SendIdle
    /\ TickBody(f, TRUE)
    /\ send' = [NoSend EXCEPT
                  !.sites = SitesOf(last'),
                  !.hold = last'.ledgerSaved,
                  !.doc = IF last'.ledgerSaved
                          THEN HeldDict(daemon_state', last'.forum, last'.inbox,
                                        last'.new_general, now)
                          ELSE EmptyDaemonState,
                  !.tick = last']
    /\ UNCHANGED <<runVars, daemonVars>>

\* one pass of the for loop: requests.post and what follows it
PostWelcome(resp) ==
    /\ send.sites # <<>>
    /\ ~send.over
    /\ AttemptsLeft(send.attempt)
    /\ send' = [send EXCEPT
                  !.posts = @ + 1,
                  !.resp = resp,
                  !.wait = SleepAfter(send.attempt, resp),
                  !.over = resp.kind \in {"ok", "error"},
                  !.attempt = @ + 1,
                  !.sent = @ \/ resp.kind = "ok"]
    /\ UNCHANGED <<engineVars, stageVars, fileVars, runVars, daemonVars>>

\* the loop is left, by break or because range(3) is used up:
\* ensure_general_exists returns new_topic_id (577), trigger_auto_thread
\* returns result (342)
EndLoop ==
    /\ send.sites # <<>>
    /\ send.over \/ ~AttemptsLeft(send.attempt)
    /\ send' = [send EXCEPT !.sites = Tail(@), !.attempt = 0, !.posts = 0,
                            !.wait = 0, !.over = FALSE, !.resp = NoResp,
                            !.done = send.posts]
    /\ UNCHANGED <<engineVars, stageVars, fileVars, runVars, daemonVars>>

\* line 690 once trigger_auto_thread has returned: save_daemon_state writes
\* the dict the tick holds
SaveHeld ==
    /\ send.sites = <<>>
    /\ send.hold
    /\ daemon_state' = send.doc
    /\ send' = [send EXCEPT !.hold = FALSE, !.doc = EmptyDaemonState]
    /\ UNCHANGED <<topics, hasConv, forum_state, now, renamed, faults, last,
                   stageVars, fileVars, runVars, daemonVars>>

\* one forum; no call other than the welcome POST fails
InitWelcome == InitWith(MaxFaults) /\ topics["B"] = InitTopics(1)
NextWelcome ==
    \/ BeginTick("A")
    \/ \E resp \in Resps : PostWelcome(resp)
    \/ EndLoop
    \/ SaveHeld
    \/ SendIdle /\ Advance
    \/ \E t \in TopicIds : Converse("A", t)
    \/ \E t \in TopicIds : CloseTopic("A", t)
SpecWelcome == InitWelcome /\ [][NextWelcome]_vars

\* ------------------------------------------- the daemon and its sessions
\* Client objects started in one run of the process
MaxSessions == 3
\* passes of the while loop of run_daemon
MaxTicks == 2

\* config.json: there with credentials the platform accepts; not there;
\* there with credentials the platform refuses
Configs == {"valid", "missing", "invalid"}
\* Client.start() and Client.stop() return or raise; so does the code that
\* runs inside "async with get_pyrogram_client()"
CallOutcomes == {"ok", "raises"}

\* _shared_client and _shared_client.is_connected (121, 142, 154)
Connected(sc) == sc.id # None /\ sc.is_connected

\* faulty variant: a client that is there is yielded whether or not it is
\* connected
NeedsClient_OnlyWhenNone(sc) == sc.id = None

\* line 121: _shared_client is None or not _shared_client.is_connected
NeedsClient(sc) == sc.id = None \/ ~sc.is_connected

\* lines 120-134, the entry of get_pyrogram_client on _shared_client = sc:
\* a connected client is yielded as it is; else config.json is read (a
\* missing file raises before anything is assigned), a Client with the next
\* id is assigned and started (refused credentials and a failed connection
\* raise in start, after the assignment)
EnterClient(sc, conf, id, start) ==
    IF ~NeedsClient(sc) THEN [client |-> sc, raised |-> FALSE, started |-> FALSE]
    ELSE IF conf = "missing"
         THEN [client |-> sc, raised |-> TRUE, started |-> FALSE]
    ELSE IF conf = "invalid" \/ start = "raises"
         THEN [client |-> [id |-> id, is_connected |-> FALSE], raised |-> TRUE,
               started |-> FALSE]
    ELSE [client |-> [id |-> id, is_connected |-> TRUE], raised |-> FALSE,
          started |-> TRUE]

\* lines 136-148, the exit of get_pyrogram_client: when the body raised, the
\* client is stopped if it is connected, what stop raises is dropped, and
\* _shared_client is set to None; else the client is kept
ExitClient(sc, body) == IF body = "raises" THEN NoClient ELSE sc

\* the sessions open after stop() was called on session id: a stop that
\* raises leaves the session as it is
AfterStop(open, id, stop) == IF stop = "ok" THEN open \ {id} ELSE open

\* "async with get_pyrogram_client() as app: <body>" as one step of the
\* operation op, which goes on at nxt when the use returned and at err when
\* it raised
UseShared(op, nxt, err) ==
    \E start \in CallOutcomes, body \in CallOutcomes, stop \in CallOutcomes :
        LET e == EnterClient(shared_client, cfg, sessions.started + 1, start)
            ran == ~e.raised
            failed == e.raised \/ body = "raises"
            stopped == ran /\ body = "raises" /\ Connected(e.client)
            opened == IF e.started THEN sessions.open \cup {e.client.id}
                      ELSE sessions.open
        IN  /\ NeedsClient(shared_client) /\ cfg # "missing"
                => sessions.started < MaxSessions
            /\ ~ran => body = "ok"
            /\ ~stopped => stop = "ok"
            /\ shared_client' = IF ran THEN ExitClient(e.client, body) ELSE e.client
            /\ sessions' =
                [open |-> IF stopped THEN AfterStop(opened, e.client.id, stop)
                          ELSE opened,
                 started |-> IF NeedsClient(shared_client) /\ cfg # "missing"
                             THEN sessions.started + 1 ELSE sessions.started]
            /\ dm' = [dm EXCEPT
                        !.at = IF failed THEN err ELSE nxt,
                        !.uses = @ + 1,
                        !.prev = dm.use,
                        !.use = [op |-> op, raised |-> failed,
                                 stop |-> IF stopped THEN stop ELSE "-",
                                 held |-> IF ran THEN e.client.id ELSE None]]
            /\ UNCHANGED <<cfg, engineVars, stageVars, fileVars, runVars, sendVars>>

\* main with --daemon: asyncio.run(run_daemon(...)); run_daemon prints its
\* settings and enters the while loop.  Nothing reads config.json here.
StartDaemon ==
    /\ dm.at = "main"
    /\ dm' = [dm EXCEPT !.at = "ensure", !.ticks = 1]
    /\ UNCHANGED <<cfg, shared_client, sessions, engineVars, stageVars, fileVars,
                   runVars, sendVars>>

\* ensure_general_exists: its use of the client; what the use raises is
\* caught at 583-586 and the cached id returned
Ensure == dm.at = "ensure" /\ UseShared("ensure_general_exists", "guards", "guards")

\* lines 599-652: a guard returns False, or none does
Guards ==
    /\ dm.at = "guards"
    /\ \E skip \in BOOLEAN : dm' = [dm EXCEPT !.at = IF skip THEN "sleep" ELSE "detect"]
    /\ UNCHANGED <<cfg, shared_client, sessions, engineVars, stageVars, fileVars,
                   runVars, sendVars>>

\* check_for_user_message_mtproto: a use that raises gives False (294-297)
DetectorUse ==
    /\ dm.at = "detect"
    /\ \E found \in BOOLEAN :
        UseShared("check_for_user_message_mtproto",
                  IF found THEN "title" ELSE "sleep", "sleep")

\* generate_topic_name: a use that raises gives the generic title (426-429)
TitleUse == dm.at = "title" /\ UseShared("generate_topic_name", "auto_thread", "auto_thread")

\* auto_thread.py 107-118: load_telegram_config, a Client of its own on the
\* same session file, "async with app".  Without credentials auto_thread
\* raises, and so does a start that fails; run_once catches it.
OpenOwn ==
    /\ dm.at = "auto_thread"
    /\ \E start \in CallOutcomes :
        LET ok == cfg = "valid" /\ start = "ok"
            id == sessions.started + 1
        IN  /\ cfg # "missing" => sessions.started < MaxSessions
            /\ dm' = [dm EXCEPT !.at = IF ok THEN "rename" ELSE "sleep",
                                !.own = IF ok THEN id ELSE None]
            /\ sessions' =
                [open |-> IF ok THEN sessions.open \cup {id} ELSE sessions.open,
                 started |-> IF cfg # "missing" THEN id ELSE sessions.started]
    /\ UNCHANGED <<cfg, shared_client, engineVars, stageVars, fileVars, runVars,
                   sendVars>>

\* auto_thread.py 120-131: EditForumTopic; a failure is printed
Rename ==
    /\ dm.at = "rename"
    /\ dm' = [dm EXCEPT !.at = "create", !.rename = TRUE]
    /\ UNCHANGED <<cfg, shared_client, sessions, engineVars, stageVars, fileVars,
                   runVars, sendVars>>

\* auto_thread.py 133-183: CreateForumTopic.  When it raises, "async with
\* app" stops the client and the tick ends in run_once's except; else the
\* pointer is written and the block is left
Create ==
    /\ dm.at = "create"
    /\ \E cr \in CallOutcomes :
        /\ dm' = [dm EXCEPT !.at = IF cr = "ok" THEN "close_own" ELSE "sleep",
                            !.create = TRUE,
                            !.own = IF cr = "ok" THEN @ ELSE None]
        /\ sessions' = [sessions EXCEPT
                          !.open = IF cr = "ok" THEN @ ELSE @ \ {dm.own}]
    /\ UNCHANGED <<cfg, shared_client, engineVars, stageVars, fileVars, runVars,
                   sendVars>>

\* the end of "async with app": auto_thread's client is stopped; the lines
\* up to save_daemon_state (690) follow without an await when the welcome
\* is answered at once
CloseOwn ==
    /\ dm.at = "close_own"
    /\ dm' = [dm EXCEPT !.at = "sleep", !.own = None, !.ledger = TRUE]
    /\ sessions' = [sessions EXCEPT !.open = @ \ {dm.own}]
    /\ UNCHANGED <<cfg, shared_client, engineVars, stageVars, fileVars, runVars,
                   sendVars>>

\* await asyncio.sleep(interval), then the next pass
Sleep ==
    /\ dm.at = "sleep"
    /\ dm.ticks < MaxTicks
    /\ dm' = [dm EXCEPT !.at = "ensure", !.ticks = @ + 1, !.rename = FALSE,
                        !.create = FALSE, !.ledger = FALSE]
    /\ UNCHANGED <<cfg, shared_client, sessions, engineVars, stageVars, fileVars,
                   runVars, sendVars>>

\* the awaits of the loop
Awaits == {"ensure", "detect", "title", "auto_thread", "rename", "create",
           "close_own", "sleep"}

\* Ctrl-C: asyncio.run cancels the task of run_daemon; CancelledError is
\* raised at the await the task stands at and is no Exception, so neither
\* get_pyrogram_client (138) nor run_once (701) nor the loop (715) catches
\* it; "async with app" of auto_thread stops its client on the way out,
\* unless the stop itself is what was cut; the finally clause (721) is next
Interrupt ==
    /\ dm.at \in Awaits
    /\ dm' = [dm EXCEPT !.at = "finally", !.cut = dm.at,
                        !.own = IF dm.at = "close_own" THEN @ ELSE None]
    /\ sessions' = [sessions EXCEPT
                      !.open = IF dm.at \in {"rename", "create"}
                               THEN @ \ {dm.own} ELSE @]
    /\ UNCHANGED <<cfg, shared_client, engineVars, stageVars, fileVars, runVars,
                   sendVars>>

\* shutdown_client (150-156) from the finally clause of run_daemon, then
\* main's except KeyboardInterrupt: the process exits
shutdown_client ==
    /\ dm.at = "finally"
    /\ \E stop \in CallOutcomes :
        /\ ~Connected(shared_client) => stop = "ok"
        /\ sessions' = [sessions EXCEPT
                          !.open = IF Connected(shared_client)
                                   THEN AfterStop(@, shared_client.id, stop)
                                   ELSE @]
        /\ shared_client' = IF stop = "ok" THEN NoClient ELSE shared_client
        /\ dm' = [dm EXCEPT !.at = "exited", !.closed = TRUE]
    /\ UNCHANGED <<cfg, engineVars, stageVars, fileVars, runVars, sendVars>>

\* the connection of the shared client drops
Disconnect ==
    /\ Connected(shared_client)
    /\ dm.at \in Awaits
    /\ shared_client' = [shared_client EXCEPT !.is_connected = FALSE]
    /\ sessions' = [sessions EXCEPT !.open = @ \ {shared_client.id}]
    /\ UNCHANGED <<cfg, dm, engineVars, stageVars, fileVars, runVars, sendVars>>

\* the process is started with --daemon on one of the configurations
InitDaemon ==
    /\ topics = [f \in Forums |-> InitTopics(1)]
    /\ hasConv = [f \in Forums |-> {}]
    /\ forum_state = [f \in Forums |-> None]
    /\ daemon_state = EmptyDaemonState
    /\ now = 0
    /\ renamed = [f \in Forums |-> {}]
    /\ faults = 0
    /\ last = NoTick
    /\ StagesIdle
    /\ FilesIdle
    /\ PassesIdle
    /\ DaemonIdle
    /\ cfg \in Configs
NextDaemon ==
    \/ StartDaemon
    \/ Ensure
    \/ Guards
    \/ DetectorUse
    \/ TitleUse
    \/ OpenOwn
    \/ Rename
    \/ Create
    \/ CloseOwn
    \/ Sleep
    \/ Interrupt
    \/ shutdown_client
    \/ Disconnect
SpecDaemon == InitDaemon /\ [][NextDaemon]_vars

\* ------------------------------------------------------------------ claims
\* the step just taken was a tick
TickDone == last.forum # "-"

\* the tick just taken ran on a protected inbox
OnProtected == TickDone /\ last.inbox \in persistent_topics(last.forum)

\* C1 as stated: a tick whose inbox (the id ensure_general_exists returned) is
\* protected issues no rename call, no create call and no ledger write.
C1_NoCallAtAll ==
    OnProtected =>
        /\ ~last.rename
        /\ ~last.ensureCreate /\ ~last.transCreate
        /\ ~last.ensureLedgerWrite /\ ~last.ledgerWrite

\* C1, amended: a tick whose inbox is protected is skipped without detection,
\* issues no rename call and writes no ledger entry, and issues no create call
\* once ensure_general_exists has returned; no protected topic is ever renamed.
C1_ProtectedNeverArchived ==
    /\ OnProtected =>
        /\ last.outcome = "skipped" /\ last.guard = "a" /\ ~last.detect
        /\ ~last.rename /\ ~last.transCreate /\ ~last.ptrWrite
        /\ ~last.ensureLedgerWrite /\ ~last.ledgerWrite
    /\ \A f \in Forums : renamed[f] \cap persistent_topics(f) = {}

\* a tick ran on a protected inbox that is open and holds a conversation
C1_Witness ==
    /\ OnProtected
    /\ IsOpen(topics[last.forum], last.inbox)
    /\ last.inbox \in hasConv[last.forum]

C3_SecondRunStopped ==
    [][(/\ last.outcome = "transitioned"
        /\ Key(last.forum, last.inbox) \in DOMAIN daemon_state.processed
        /\ last'.forum = last.forum /\ last'.inbox = last.inbox)
       => /\ last'.outcome = "skipped" /\ last'.guard = "b" /\ ~last'.detect
          /\ ~last'.rename /\ ~last'.ensureCreate /\ ~last'.transCreate
          /\ topics' = topics /\ renamed' = renamed
          /\ forum_state' = forum_state /\ daemon_state' = daemon_state
      ]_vars

\* a tick was stopped by guard (b) on an inbox that still holds the
\* conversation and whose transition was recorded at this very instant
C3_Witness ==
    /\ TickDone /\ last.outcome = "skipped" /\ last.guard = "b"
    /\ last.inbox \in hasConv[last.forum]
    /\ daemon_state.processed[Key(last.forum, last.inbox)].timestamp = now

\* C4: over any sequence of ticks, failing calls included, a rename call is
\* issued at most once for a (forum, inbox) pair.
C4_RenameAtMostOnce == ~last.renameAgain

\* the last instant the clock reaches
FinalTime == (MaxTime \div ClockStep) * ClockStep

\* forum A's inbox is open, holds a conversation and has no recorded
\* transition; protected inboxes count when prot is TRUE
InboxPending(prot) ==
    /\ IsOpen(topics["A"], get_current_general("A"))
    /\ get_current_general("A") \in hasConv["A"]
    /\ Key("A", get_current_general("A")) \notin DOMAIN daemon_state.processed
    /\ (prot \/ get_current_general("A") \notin persistent_topics("A"))

\* the inbox is pending, no call or write fails from now on, the platform
\* accepts a further topic, and the clock runs for another create-cooldown
InboxWaiting(prot) ==
    /\ InboxPending(prot)
    /\ faults = MaxFaults
    /\ CanCreate(topics["A"])
    /\ now + COOLDOWN_AFTER_CREATE_SECONDS <= FinalTime

\* once calls no longer fail, the pointer leaves an open inbox only when the
\* inbox's transition is recorded
PointerKept ==
    [][\A g \in TopicIds :
        (/\ faults = MaxFaults /\ IsOpen(topics["A"], g)
         /\ get_current_general("A") = g
         /\ (IF forum_state'["A"] = None THEN DefaultGeneral ELSE forum_state'["A"]) # g)
        => Key("A", g) \in DOMAIN daemon_state'.processed
      ]_vars

\* C5 as stated: whenever the open inbox holds a conversation and calls stop
\* failing, repeated ticks eventually record a transition of it (or a user
\* closes the thread first); the inbox is not abandoned before that.
C5_NoConversationLost ==
    (InboxWaiting(TRUE) ~> ~InboxPending(TRUE)) /\ PointerKept

\* C5, amended: whenever an open inbox that is not a protected topic holds a
\* conversation and calls stop failing, repeated ticks eventually record a
\* transition of it (or a user closes the thread first); the inbox is not
\* abandoned before that.
C5_UnprotectedEventuallyRecorded ==
    (InboxWaiting(FALSE) ~> ~InboxPending(FALSE)) /\ PointerKept

\* a tick was skipped by a cooldown guard on a waiting conversation in an
\* unprotected inbox
C5_Witness ==
    /\ TickDone /\ last.outcome = "skipped" /\ last.guard \in {"c", "d", "e"}
    /\ last.inbox = get_current_general("A")
    /\ InboxWaiting(FALSE)

\* the ledger holds, for topic g as forum f's inbox, a created entry or a
\* processed entry naming g as replacement inbox that is younger than age
YoungEntryFor(f, g, age) ==
    \/ /\ Key(f, g) \in DOMAIN daemon_state.created_topics
       /\ now - daemon_state.created_topics[Key(f, g)].timestamp < age
    \/ \E k \in DOMAIN daemon_state.processed :
        /\ daemon_state.processed[k].new_general = g
        /\ now - daemon_state.processed[k].timestamp < age

\* C6 as stated: a tick whose inbox has a created entry, or a processed entry
\* naming it as replacement, younger than 15 s is skipped with no detection
\* and no platform mutation at all; guards (c)/(d) skip only on such an entry.
C6_NoMutationInCreateCooldown ==
    /\ (TickDone /\ YoungEntryFor(last.forum, last.inbox, 15))
        => /\ last.outcome = "skipped" /\ ~last.detect
           /\ ~last.rename /\ ~last.transCreate /\ ~last.ensureCreate
    /\ (TickDone /\ last.guard \in {"c", "d"})
        => YoungEntryFor(last.forum, last.inbox, 15)

\* C6, amended: a tick whose inbox has a created entry, or a processed entry
\* naming it as replacement, younger than 15 s is skipped: no detection, no
\* rename call, and no create call once ensure_general_exists has returned;
\* guards (c)/(d) skip only on such an entry (one aged 20 s does not count).
C6_CreateCooldown ==
    /\ (TickDone /\ YoungEntryFor(last.forum, last.inbox, 15))
        => /\ last.outcome = "skipped" /\ ~last.detect
           /\ ~last.rename /\ ~last.transCreate
    /\ (TickDone /\ last.guard \in {"c", "d"})
        => YoungEntryFor(last.forum, last.inbox, 15)

\* guard (c) skipped a tick on an open inbox that holds a conversation and
\* whose created entry is 5 s old
C6_Witness ==
    /\ TickDone /\ last.outcome = "skipped" /\ last.guard = "c"
    /\ IsOpen(topics[last.forum], last.inbox)
    /\ last.inbox \in hasConv[last.forum]
    /\ now - daemon_state.created_topics[Key(last.forum, last.inbox)].timestamp = 5

\* forum f has a processed entry (a recorded transition) younger than age
YoungTransition(f, age) ==
    \E k \in DOMAIN daemon_state.processed :
        k[1] = f /\ now - daemon_state.processed[k].timestamp < age

\* any two transitions recorded for one forum are at least gap apart
TransitionsApart(gap) ==
    \A k1, k2 \in DOMAIN daemon_state.processed :
        (k1 # k2 /\ k1[1] = k2[1]) =>
            \/ daemon_state.processed[k1].timestamp
                 - daemon_state.processed[k2].timestamp >= gap
            \/ daemon_state.processed[k2].timestamp
                 - daemon_state.processed[k1].timestamp >= gap

\* C7 as stated: a tick of a forum whose most recent recorded transition is
\* younger than 10 s is skipped with no detection and no platform mutation at
\* all; two transitions of one forum are recorded at least 10 s apart.
C7_NoMutationInGlobalCooldown ==
    [][/\ \A f \in Forums :
            (last'.forum = f /\ YoungTransition(f, 10))
            => /\ last'.outcome = "skipped" /\ ~last'.detect
               /\ ~last'.rename /\ ~last'.transCreate /\ ~last'.ensureCreate
       /\ TransitionsApart(10)'
      ]_vars

\* C7, amended: a tick of a forum whose most recent recorded transition is
\* younger than 10 s is skipped: no detection, no rename call, and no create
\* call once ensure_general_exists has returned; two transitions of one forum
\* are recorded at least 10 s apart.
C7_GlobalCooldown ==
    [][/\ \A f \in Forums :
            (last'.forum = f /\ YoungTransition(f, 10))
            => /\ last'.outcome = "skipped" /\ ~last'.detect
               /\ ~last'.rename /\ ~last'.transCreate
       /\ TransitionsApart(10)'
      ]_vars

\* guard (e) skipped a tick on an open inbox that holds a conversation, 5 s
\* after a transition of the same forum was recorded
C7_Witness ==
    /\ TickDone /\ last.outcome = "skipped" /\ last.guard = "e"
    /\ IsOpen(topics[last.forum], last.inbox)
    /\ last.inbox \in hasConv[last.forum]
    /\ YoungTransition(last.forum, 10) /\ ~YoungTransition(last.forum, 5)

\* the ledger as forum f alone would have written it: f's own entries, and
\* the time of f's own latest recorded transition
OwnKeys(d, f) == {k \in DOMAIN d : k[1] = f}
OwnView(ds, f) ==
    [processed |-> DictDel(ds.processed, DOMAIN ds.processed \ OwnKeys(ds.processed, f)),
     created_topics |-> DictDel(ds.created_topics,
                                DOMAIN ds.created_topics \ OwnKeys(ds.created_topics, f)),
     last_autothread_timestamp |->
        Max({NoTimestamp} \cup {ds.processed[k].timestamp : k \in OwnKeys(ds.processed, f)})]

\* C8: the outcome of a forum's tick is a function of that forum's own state:
\* a tick is skipped only if a guard skips it on the forum's own ledger
\* entries, whatever the other forum has recorded.
C8_ForumsIndependent ==
    (TickDone /\ last.outcome = "skipped")
        => FirstGuard(OwnView(daemon_state, last.forum), last.forum, last.inbox, now) # "-"

\* the detector has run on the window and the fetch went through
Detected == detected.fetch = "ok"

\* the window holds a message of the automation identity, and a message of
\* another sender with non-empty text or an attachment that is later than
\* the earliest message of the automation identity
ConversationAsStated ==
    /\ Len(messages) >= 2
    /\ \E b \in DOMAIN messages : messages[b].from_id = BOT_ID
    /\ \E u \in DOMAIN messages :
        /\ messages[u].from_id # BOT_ID
        /\ (messages[u].message # <<>> \/ messages[u].media # "None")
        /\ \E b \in DOMAIN messages :
            /\ messages[b].from_id = BOT_ID
            /\ \A c \in DOMAIN messages :
                messages[c].from_id = BOT_ID => messages[b].date <= messages[c].date
            /\ messages[u].date > messages[b].date

\* C9: the detector returns true if and only if the window has at least 2
\* messages, one from the automation identity, and one from another sender
\* with non-empty text or an attachment that is strictly later than the
\* earliest message of the automation identity.
C9_DetectorIff == Detected => (detected.result <=> ConversationAsStated)

\* C10: whatever the window, the title the generator returns has at most 35
\* characters, the ellipsis of a truncation included.
C10_TitleAtMost35 == title.fetch # "pending" => Len(title.text) <= 35

\* a text that rule 1 of the title rules takes: it contains "?" and is no
\* bare greeting or filler token
IsQuestion(text) == Contains(text, "?") /\ lower(strip(text)) \notin Greetings
\* the users' texts of the window that rule 1 takes, in the window's order
Questions == SelectSeq(TextsOf(messages, FALSE), IsQuestion)
\* a text up to and including its first "?"
UpToQuestionMark(text) == strip(BeforeFirst(text, "?")) \o <<"?">>

\* C11: the title rules are applied in order over the whole window: whenever
\* some user message contains "?" and is no bare greeting, the title is the
\* first such message's text up to and including its "?", truncated, even
\* when an earlier user message matches rule 2.
C11_QuestionWins ==
    (title.fetch = "ok" /\ Questions # <<>>)
        => title.text = Truncate(UpToQuestionMark(Head(Questions)))

\* no rule of the generator gives a title on the window
NoRuleMatches ==
    /\ ~FirstUserTitle(TextsOf(messages, FALSE)).hit
    /\ ~FirstBotTitle(TextsOf(messages, TRUE)).hit

\* C12: the generator always returns a non-empty string, on every window and
\* when the fetch raises; when no rule matches, or the fetch raises, it
\* returns the "Voice chat <time>" or the "Chat <time>" label.
C12_TitleNeverEmpty ==
    title.fetch # "pending" =>
        /\ title.text # <<>>
        /\ (title.fetch = "fail" \/ NoRuleMatches)
            => title.text \in {VoiceTitle, ChatTitle}

\* the generator ran on a window without any text (empty, or attachments
\* only) and returned the generic label
C12_Witness ==
    /\ title.fetch = "ok"
    /\ \A i \in DOMAIN messages : messages[i].message = <<>>
    /\ title.text = ChatTitle

\* the two maps of the ledger
LedgerMaps == {"processed", "created_topics"}

\* the timestamp parses and names a second inside the retention horizon;
\* with local set, it carries no UTC offset either
InHorizon(ts, t, local) ==
    /\ ts # InvalidTimestamp
    /\ local => ~HasOffset(ts)
    /\ Instant(ts) >= t - RetentionHorizon

\* cleanup_old_state left in each map exactly the entries of the map whose
\* timestamp is InHorizon, each unchanged, and did not touch
\* last_autothread_timestamp
SweptKeeping(local) ==
    /\ \A m \in LedgerMaps :
        /\ DOMAIN swept.after[m] =
            {k \in DOMAIN swept.before[m] :
                InHorizon(swept.before[m][k].timestamp, swept.at, local)}
        /\ \A k \in DOMAIN swept.after[m] : swept.after[m][k] = swept.before[m][k]
    /\ swept.after.last_autothread_timestamp = swept.before.last_autothread_timestamp

C14_WritesAtomic ==
    /\ \A d \in Documents : disk[d].main.kind # "partial"
    /\ io.read.saw.kind # "partial"

\* the content is a document that does not parse
FailsToParse(c) == c.kind \in {"partial", "notjson", "nottext"}

\* C15: a read by load_state of a document that fails to parse does not
\* raise: it returns the empty document and moves the bad file aside as a
\* backup, so that the path holds no file (and a later read returns the
\* empty document) until something is written.
C15_CorruptReadIsEmpty ==
    [][(/\ io'.read # io.read
        /\ io'.read.by = "load_state"
        /\ FailsToParse(io'.read.saw))
       => /\ io'.read.outcome = "empty"
          /\ disk'[io'.read.doc].main = Absent
          /\ disk'[io'.read.doc].bak = io'.read.saw
      ]_vars

\* run r is inside the engine body: past the lock, not yet out of it
InBody(r) == pc[r].step \in {"body", "save", "written"}

\* C16: when invocations of the engine entry point overlap, their bodies
\* never run at the same time: a run enters the body only when no other run
\* is between its ensure-inbox step and the release after its last write.
C16_SingleFlight ==
    /\ \A r, q \in Runs : (InBody(r) /\ InBody(q)) => r = q
    /\ \A r \in Runs : InBody(r) => lock.holder = r

\* one run is in the body of a tick while the other waits for the lock
C16_Witness ==
    \E r, q \in Runs :
        /\ pc[r].step = "written" /\ lock.holder = r
        /\ pc[q].step = "waiting" /\ lock.waiting = <<q>>
        /\ last.outcome = "transitioned"

\* the forums at the positions before position i of the pass
ForumsBefore(i) == {ForumOrder[j] : j \in 1..(i - 1)}

\* C17: a tick that raises does not end the pass: the run goes on with the
\* next forum, so that a pass that is over has ticked every forum, in order,
\* whether or not a tick raised; the tick that raised has recorded no
\* transition for its inbox, so the next pass tries the forum again.
C17_ErrorsStayInTheTick ==
    /\ \A r \in Runs :
        /\ pc[r].raised \subseteq pc[r].ticked
        /\ (pc[r].step = "idle" /\ pc[r].ticked # {}) => pc[r].ticked = Forums
        /\ pc[r].step \in {"call", "waiting", "body"}
            => pc[r].ticked = ForumsBefore(pc[r].at)
        /\ pc[r].step \in {"save", "written"}
            => pc[r].ticked = ForumsBefore(pc[r].at + 1)
    /\ (TickDone /\ last.outcome = "error")
        => Key(last.forum, last.inbox) \notin DOMAIN daemon_state.processed

\* a pass in which the tick of the first forum raised has gone on to the
\* tick of the second forum, which recorded a transition
C17_Witness ==
    \E r \in Runs :
        /\ pc[r].raised = {ForumOrder[1]}
        /\ pc[r].step = "written" /\ pc[r].at = 2
        /\ last.forum = ForumOrder[2] /\ last.outcome = "transitioned"

\* the step is a tick of forum f on inbox g
TickOf(f, g) == last'.forum = f /\ last'.inbox = g

\* the four persisted updates of a transition of forum f's inbox g, as the
\* step applies them: the processed entry for g, a created entry for the new
\* inbox, the inbox pointer, the last-transition timestamp
ProcessedWritten(f, g) ==
    /\ Key(f, g) \in DOMAIN daemon_state'.processed
    /\ Key(f, g) \notin DOMAIN daemon_state.processed
CreatedWritten(f) ==
    \E k \in DOMAIN daemon_state'.created_topics :
        /\ k[1] = f
        /\ daemon_state'.created_topics[k] = CreatedEntry(now, "auto_thread")
        /\ k \in DOMAIN daemon_state.created_topics
            => daemon_state.created_topics[k] # CreatedEntry(now, "auto_thread")
PointerWritten == last'.ptrWrite
TimestampWritten ==
    daemon_state'.last_autothread_timestamp # daemon_state.last_autothread_timestamp

\* C18: the four persisted updates of a transition are applied as one write:
\* every tick ends either with none of them applied, or as transitioned with
\* all four applied.
C18_FourWritesAtOnce ==
    [][\A f \in Forums, g \in TopicIds :
        TickOf(f, g) =>
            \/ /\ last'.outcome = "transitioned"
               /\ ProcessedWritten(f, g) /\ CreatedWritten(f)
               /\ PointerWritten /\ TimestampWritten
            \/ /\ last'.outcome # "transitioned"
               /\ ~ProcessedWritten(f, g) /\ ~CreatedWritten(f)
               /\ ~PointerWritten /\ ~TimestampWritten
      ]_vars

\* in the step, the rename call on forum f's topic g went through; the create
\* call of the transition went through (the tick's ensure_general_exists
\* having issued none)
RenameWentThrough(f, g) ==
    last'.rename /\ topics[f][g].title = "General" /\ topics'[f][g].title = "Other"
CreateWentThrough(f) ==
    last'.transCreate /\ NextTopicId(topics'[f]) > NextTopicId(topics[f])

\* C19: a tick in which both calls of the transition were issued and exactly
\* one of them went through (rename but not create, or create but not
\* rename) writes the processed entry for the old inbox in that tick.
C19_PartialTransitionRecorded ==
    [][\A f \in Forums, g \in TopicIds :
        (/\ TickOf(f, g)
         /\ last'.rename /\ last'.transCreate /\ ~last'.ensureCreate
         /\ RenameWentThrough(f, g) # CreateWentThrough(f))
        => /\ ProcessedWritten(f, g)
           /\ daemon_state'.processed[Key(f, g)].timestamp = now
      ]_vars

\* the tick just taken renamed its inbox and then raised in or after the
\* create call: the pointer still names the renamed thread
ArchivedWithoutInbox ==
    /\ TickDone /\ last.outcome = "error" /\ last.rename /\ last.transCreate
    /\ topics[last.forum][last.inbox].title = "Other"
    /\ get_current_general(last.forum) = last.inbox

\* C20: after a transition whose create call failed, the next tick's
\* ensure_general_exists returns an inbox other than the archived thread.
C20_PointerRepaired ==
    [][(ArchivedWithoutInbox /\ last'.forum = last.forum)
        => last'.inbox # last.inbox
      ]_vars

\* the steps of a tick in the order the design gives them
TickOrder == <<"ensure", "guards", "detect", "rename", "create", "ledger">>

\* the steps of trace tr are taken in the order of TickOrder, from the first
\* step of TickOrder on, none skipped before the last one taken except the
\* two platform calls
StepsInOrder(tr) ==
    /\ tr # <<>> /\ tr[1] = TickOrder[1]
    /\ \A i \in DOMAIN tr : Contains(TickOrder, tr[i])
    /\ \A i, j \in DOMAIN tr :
        i < j => IndexOf(TickOrder, tr[i]) < IndexOf(TickOrder, tr[j])
    /\ \A i \in DOMAIN tr :
        IndexOf(TickOrder, tr[i]) <= 3 => IndexOf(TickOrder, tr[i]) = i

\* C21: within a tick the steps run in the order ensure-inbox, guards,
\* detection, transition; the ledger is written only after both the rename
\* call and the create call have been issued in that tick, and no processed
\* entry of the persisted ledger names a thread for which no rename call was
\* ever issued.
C21_LedgerAfterBothCalls ==
    /\ TickDone =>
        /\ StepsInOrder(last.trace)
        /\ Contains(last.trace, "ledger")
            => /\ Contains(last.trace, "rename") /\ Contains(last.trace, "create")
               /\ last.rename /\ last.transCreate
        /\ last.ledgerSaved => Contains(last.trace, "ledger")
    /\ \A k \in DOMAIN daemon_state.processed : k[2] \in renamed[k[1]]

\* a tick went through all steps and saved the ledger although its rename
\* call failed
C21_Witness ==
    /\ TickDone /\ last.trace = TickOrder /\ last.ledgerSaved
    /\ topics[last.forum][last.inbox].title = "General"
    /\ Key(last.forum, last.inbox) \in DOMAIN daemon_state.processed

\* C22: whenever a tick reaches the detector or the transition, its inbox is
\* a thread that was open and not protected when the tick listed the forum's
\* threads; a cached inbox that is closed, missing or protected is never
\* passed on to detection or archived, also when the listing or the creation
\* in ensure_general_exists fails.
C22_InboxIsOpenAndUnprotected ==
    [][\A f \in Forums :
        (last'.forum = f /\ last'.detect)
        => /\ IsOpen(topics[f], last'.inbox)
           /\ last'.inbox \notin persistent_topics(f)
      ]_vars

C24_CreatedInboxRecorded ==
    [][\A f \in Forums :
        (/\ last'.forum = f /\ last'.ensureCreate
         /\ Exists(topics'[f], NextTopicId(topics[f])))
        => /\ last'.inbox = NextTopicId(topics[f])
           /\ last'.ensurePtrWrite /\ last'.ensureLedgerWrite
           /\ forum_state'[f] = NextTopicId(topics[f])
           /\ Key(f, NextTopicId(topics[f])) \in DOMAIN daemon_state'.created_topics
           /\ daemon_state'.created_topics[Key(f, NextTopicId(topics[f]))]
                = CreatedEntry(now, "ensure_general_exists")
      ]_vars

\* C25: the new inbox id a transition records is the thread created in that
\* transition: the open thread titled "General" with the highest id in the
\* forum after the create call, never the thread just archived, a closed
\* thread, or an older thread with the same title.
C25_NewInboxIsTheCreatedThread ==
    [][\A f \in Forums :
        (last'.forum = f /\ last'.outcome = "transitioned"
         /\ last'.new_general # None)
        => /\ last'.new_general # last'.inbox
           /\ IsOpen(topics'[f], last'.new_general)
           /\ topics'[f][last'.new_general].title = "General"
           /\ \A t \in TopicIds : Exists(topics'[f], t) => t <= last'.new_general
           /\ ~Exists(topics[f], last'.new_general)
      ]_vars

\* the step leaves forum f's threads, its pointer and the ledger as one of
\* the runs of ensure_general_exists that return inbox g leaves them
AsEnsureLeftThem(f, g) ==
    \E c \in EnsureChoices(topics[f]) :
        LET e == ensure_general_exists(f, c.lst, c.ec)
        IN  /\ e.ret = g
            /\ e.create = last'.ensureCreate
            /\ e.ptrWrite = last'.ensurePtrWrite
            /\ e.ledgerWrite = last'.ensureLedgerWrite
            /\ topics'[f] = e.tp
            /\ forum_state'[f] = e.ptr
            /\ daemon_state' = e.ds

\* C26: a tick that a guard skips, or whose detection finds no conversation,
\* does nothing from the guards on: no rename, create or welcome call, and
\* the inbox pointer and the ledger stay exactly as ensure_inbox left them
\* (the ledger is not even pruned on disk).
C26_SkippedTickChangesNothing ==
    [][\A f \in Forums :
        (last'.forum = f /\ last'.outcome \in {"skipped", "noconv"})
        => /\ ~last'.rename /\ ~last'.transCreate /\ ~last'.welcome
           /\ ~last'.ptrWrite /\ ~last'.ledgerWrite /\ ~last'.ledgerSaved
           /\ renamed' = renamed
           /\ AsEnsureLeftThem(f, last'.inbox)
           /\ \A h \in Forums \ {f} :
                topics'[h] = topics[h] /\ forum_state'[h] = forum_state[h]
      ]_vars

\* a tick moved the pointer in ensure_general_exists, found no conversation,
\* and left a ledger entry that is past the retention horizon in the document
C26_Witness ==
    /\ TickDone /\ last.outcome = "noconv" /\ last.ensurePtrWrite
    /\ forum_state[last.forum] = last.inbox
    /\ \E k \in DOMAIN daemon_state.processed :
        daemon_state.processed[k].timestamp < now - RetentionHorizon

\* C27: after every tick, whatever its outcome, the persisted ledger holds no
\* processed or created entry older than the 7-day retention horizon.
C27_PersistedLedgerPruned ==
    TickDone =>
        \A m \in LedgerMaps : \A k \in DOMAIN daemon_state[m] :
            daemon_state[m][k].timestamp >= now - RetentionHorizon

\* C28: no update of the state store is lost: a write of the ledger keeps
\* every entry the document held (an entry is replaced only by the entry the
\* write itself records, stamped with the time of the write), the time of the
\* last transition never goes back, and a forum's inbox pointer is changed
\* only by that forum's own tick.
C28_NoLostUpdate ==
    [][/\ \A m \in LedgerMaps : \A k \in DOMAIN daemon_state[m] :
            /\ k \in DOMAIN daemon_state'[m]
            /\ \/ daemon_state'[m][k] = daemon_state[m][k]
               \/ daemon_state'[m][k].timestamp = now
       /\ daemon_state'.last_autothread_timestamp
            >= daemon_state.last_autothread_timestamp
       /\ \A f \in Forums :
            forum_state'[f] # forum_state[f] => last'.forum = f /\ last' # last
      ]_vars

\* a transition has saved its entries into a ledger that still holds the
\* entry recorded earlier for the other forum
C28_Witness ==
    \E r \in Runs :
        /\ pc[r].step = "written" /\ last.outcome = "transitioned"
        /\ Key(last.forum, last.inbox) \in DOMAIN daemon_state.processed
        /\ daemon_state.last_autothread_timestamp = now
        /\ \E k \in DOMAIN daemon_state.created_topics :
            k[1] # last.forum /\ daemon_state.created_topics[k].timestamp < now

\* run r is in the middle of a pass: it has ticked a forum and has another
\* forum still to tick
MidPass(r) ==
    /\ pc[r].step \in {"call", "waiting"}
    /\ pc[r].ticked # {} /\ pc[r].ticked # Forums

\* C29: the forums of one pass are reconciled inside one protected section:
\* while a pass is between two of its forum ticks, no tick of an overlapping
\* pass runs.
C29_PassIsOneSection ==
    \A r, q \in Runs : (r # q /\ MidPass(r)) => ~InBody(q)

\* C30: each welcome loop, the one of ensure_general_exists and the one of the
\* transition, makes at most 3 POSTs and then ends; after a 429 it sleeps the
\* retry_after of the response (5 s when the response names none), after a
\* raised failure 1 s and then 2 s; no step of a loop changes the pointer,
\* the ledger, or what the tick did and holds to be saved, and the dict of a
\* transition is saved after the loop whatever the POSTs gave.
C30_WelcomeBoundedAndHarmless ==
    [][/\ send'.posts <= 3 /\ send'.done <= 3
       /\ send'.posts = send.posts + 1 =>
            /\ send'.resp.kind = "429" =>
                 send'.wait = IF send'.resp.retry_after = None THEN 5
                              ELSE send'.resp.retry_after
            /\ send'.resp.kind = "raises" =>
                 send'.wait = CASE send.posts = 0 -> 1
                                [] send.posts = 1 -> 2
                                [] OTHER -> 0
       /\ send.sites # <<>> =>
            /\ forum_state' = forum_state /\ daemon_state' = daemon_state
            /\ send'.tick = send.tick
            /\ send'.hold = send.hold /\ send'.doc = send.doc
       /\ (send.hold /\ ~send'.hold) =>
            /\ Key(send.tick.forum, send.tick.inbox)
                    \in DOMAIN daemon_state'.processed
            /\ daemon_state'.last_autothread_timestamp = now
            /\ forum_state' = forum_state
      ]_vars

\* a transition whose welcome loop made three POSTs, none of them answered
\* ok, has ended: the pointer names the new inbox and the ledger holds the
\* processed entry
C30_Witness ==
    /\ SendIdle
    /\ send.tick.outcome = "transitioned" /\ send.tick.welcome
    /\ send.done = 3 /\ ~send.sent
    /\ forum_state[send.tick.forum] = send.tick.new_general
    /\ Key(send.tick.forum, send.tick.inbox) \in DOMAIN daemon_state.processed

\* the rename call of the tick of forum f's inbox g was issued and failed
RenameFailed(f, g) ==
    last'.rename /\ topics[f][g].title = "General" /\ topics'[f][g].title = "General"

\* C31: the rename is best-effort: a transition whose rename call fails still
\* issues the create call, and when the rename is the only call or write of
\* the tick that fails, the thread is created, the inbox pointer is set to
\* it, and the processed entry, the created entry and the transition time
\* are written.
C31_RenameBestEffort ==
    [][\A f \in Forums, g \in TopicIds :
        (TickOf(f, g) /\ RenameFailed(f, g)) =>
            /\ last'.transCreate
            /\ faults' = faults + 1 =>
                 /\ last'.outcome = "transitioned"
                 /\ CreateWentThrough(f)
                 /\ forum_state'[f] = NextTopicId(topics[f])
                 /\ IsOpen(topics'[f], forum_state'[f])
                 /\ ProcessedWritten(f, g)
                 /\ Key(f, forum_state'[f]) \in DOMAIN daemon_state'.created_topics
                 /\ daemon_state'.last_autothread_timestamp = now
      ]_vars

\* a transition whose rename failed has ended: the old inbox still carries
\* the title "General", the pointer names the thread just created, and the
\* ledger holds the processed entry
C31_Witness ==
    /\ TickDone /\ last.outcome = "transitioned" /\ last.rename
    /\ topics[last.forum][last.inbox].title = "General"
    /\ forum_state[last.forum] = last.new_general
    /\ last.new_general # last.inbox /\ last.new_general # None
    /\ NextTopicId(topics[last.forum]) = last.new_general + 1
    /\ Key(last.forum, last.inbox) \in DOMAIN daemon_state.processed

\* C32: the detector does not raise on absent data, an empty or
\* single-message window gives False; a failure of the fetch is not returned
\* as "no conversation" but leaves the detector as an error.
C32_FetchFailurePropagates ==
    /\ (detected.fetch = "ok" /\ Len(messages) < 2) =>
            ~detected.raised /\ ~detected.result
    /\ detected.fetch = "fail" => detected.raised

\* the messages of a window in ascending order of their date, messages of
\* one date in the window's order
RECURSIVE InsertByDate(_, _)
InsertByDate(m, sorted) ==
    IF sorted = <<>> THEN <<m>>
    ELSE IF m.date < Head(sorted).date THEN <<m>> \o sorted
    ELSE <<Head(sorted)>> \o InsertByDate(m, Tail(sorted))
RECURSIVE SortedByDate(_)
SortedByDate(msgs) ==
    IF msgs = <<>> THEN <<>>
    ELSE InsertByDate(msgs[Len(msgs)], SortedByDate(SubSeq(msgs, 1, Len(msgs) - 1)))

\* C33: the title does not depend on the order in which the platform lists
\* the messages: it is the title the rules give on the messages taken in
\* ascending order of their date.
C33_TitleOrderIndependent ==
    title.fetch = "ok" => title.text = generate_topic_name(SortedByDate(messages))

\* the step is a use of the shared client
UseDone == dm'.uses = dm.uses + 1

\* C34 as stated: after any error raised while the shared session is in use
\* the session is stopped and discarded before the error reaches the caller.
C34_StoppedAndDiscarded ==
    (dm.use.raised /\ dm.use.held # None) =>
        /\ dm.use.held \notin sessions.open
        /\ shared_client.id # dm.use.held

\* C34: after any error raised while the shared session is in use, stop is
\* called on the session (an error of the stop itself is dropped) and the
\* session is discarded before the error reaches the caller, so that the
\* adapter is not connected; a use on an adapter that is not connected
\* establishes a new session and never yields an old one; a use that
\* completes without error leaves its session connected, and had a connected
\* session to reuse it ran on that one.
C34_DiscardedAfterError ==
    [][UseDone =>
        /\ dm'.use.raised =>
            /\ ~Connected(shared_client')
            /\ dm'.use.held # None =>
                 /\ shared_client' = NoClient
                 /\ dm'.use.stop # "-"
                 /\ dm'.use.stop = "ok" => dm'.use.held \notin sessions'.open
        /\ ~dm'.use.raised =>
            /\ Connected(shared_client')
            /\ shared_client'.id = dm'.use.held
            /\ dm'.use.held \in sessions'.open
            /\ Connected(shared_client) => shared_client' = shared_client
            /\ ~Connected(shared_client) =>
                 /\ dm'.use.held = sessions.started + 1
                 /\ dm'.use.held # shared_client.id
      ]_vars

\* a use raised on a session, which was stopped and discarded, and the next
\* use ran on a new session that is left connected
C34_Witness ==
    /\ dm.prev.raised /\ dm.prev.held # None /\ dm.prev.stop = "ok"
    /\ dm.prev.held \notin sessions.open
    /\ ~dm.use.raised /\ dm.use.held > dm.prev.held
    /\ Connected(shared_client) /\ shared_client.id = dm.use.held

\* the sessions the process holds a client for and that are open: the one
\* of the shared client, the one of auto_thread's own client
HeldOpen ==
    ((IF Connected(shared_client) THEN {shared_client.id} ELSE {})
        \cup (IF dm.own # None THEN {dm.own} ELSE {}))
    \cap sessions.open

\* C35: the engine uses a single shared session: at every point of a tick,
\* the rename and create calls of a transition included, at most one session
\* on the session file is open.
C35_OneSession == Cardinality(HeldOpen) <= 1

\* C36: on an interrupt in daemon mode the tick in flight runs to its end
\* before the loop is left: a transition that has issued its rename call is
\* cut by the interrupt only once it is over, in the sleep between two
\* passes; and the shared session is closed before the process exits.
C36_InterruptLetsTickFinish ==
    dm.at \in {"finally", "exited"} =>
        /\ dm.rename => dm.cut = "sleep"
        /\ dm.at = "exited" => dm.closed

\* C37: a missing or invalid configuration at process start is fatal: the
\* process exits at once and never enters the polling loop.
C37_BadConfigIsFatal ==
    cfg # "valid" => dm.at \in {"main", "exited"} /\ dm.ticks = 0

\* C38: at the end of every tick that wrote a processed entry for its inbox
\* X, the forum's inbox pointer is different from X.
C38_PointerLeavesProcessed ==
    (TickDone /\ last.ledgerSaved
        /\ Key(last.forum, last.inbox) \in DOMAIN daemon_state.processed)
    => get_current_general(last.forum) # last.inbox
====
